---------------------------- MODULE Spec2Model ----------------------------
(***************************************************************************)
(* The ingestion pipeline of backend_rag_pipeline: the storage gateway     *)
(* (common/db_handler.py and common/postgres_handler.py), the chunker      *)
(* (common/text_processor.py) and the source watchers, as a state machine. *)
(* Every call to the store made by a handler is one step of the model, so  *)
(* the states between two store calls are states of the model.             *)
(***************************************************************************)
EXTENDS Integers, Sequences, FiniteSets, Bags, TLC

(***************************************************************************)
(* Bounds of the model.                                                    *)
(***************************************************************************)
MaxUnits == 1        \* a text is 0..MaxUnits units long
LenUnit == 500       \* characters in one unit of text length
MaxCalls == 3        \* gateway calls made by the direct client
MaxFaults == 1       \* store / embedding / source calls that raise in one run
MaxCycles == 3       \* poll cycles of a watcher
MaxEdits == 1        \* changes made to the watched source, restarts of the Git watcher
MaxDepth == 3        \* folder levels of the Drive that is listed
MaxText == 3         \* characters of a text given to chunk_text on its own
MaxSize == 5         \* chunk_size given to chunk_text on its own
MaxOverlap == 2      \* overlap given to chunk_text on its own

(***************************************************************************)
(* Program constants.                                                      *)
(***************************************************************************)
DEFAULT_CHUNK_SIZE == 400
DEFAULT_CHUNK_OVERLAP == 0

\* File identities. The path of the second one starts with an entry of the
\* tabular list, which matters to postgres_handler, where is_tabular_file is
\* given the path and not the MIME type.
Files == {"a.txt", "csv/b.csv", "c.png", "d.zip"}
TabularPrefixed == {"csv/b.csv"}

\* The files the direct client of the gateway works on
ClientFiles == {"a.txt", "csv/b.csv"}

\* mimetypes.guess_type(path): the type follows from the path
get_mime_type(f) ==
    CASE f = "csv/b.csv" -> "text/csv"
      [] f = "c.png" -> "image/png"
      [] f = "d.zip" -> "application/zip"
      [] OTHER -> "text/plain"

tabular_mime_types == {"text/csv"}
ImageMimes == {"image/png"}

Providers == {"supabase", "postgres"}

VARIABLES
    DATABASE_PROVIDER,   \* db_handler.DATABASE_PROVIDER
    documents,           \* table documents: a bag of chunk records
    document_rows,       \* table document_rows: a bag of row records
    document_metadata,   \* table document_metadata: id -> record (id is the key)
    call,                \* the gateway call in progress
    last,                \* summary of the last gateway call that returned
    calls,               \* gateway calls started by the direct client
    faults,              \* store / embedding / source calls that raised so far
    watcher,             \* which watcher runs: "local", "drive" or "none"
    wpc,                 \* where the watcher's poll loop is
    now,                 \* the clock
    source,              \* the watched source: file -> content, mtime, trashed
    last_check_time,     \* self.last_check_time
    known_files,         \* self.known_files: file id -> modifiedTime
    changes,             \* the changed files of the cycle still to process
    saved,               \* the persisted pipeline state
    cycle,               \* poll cycles started
    edits,               \* changes made to the source
    hist,                \* what the cycle in progress and the one before did
    repositories,        \* table repositories: id -> status
    git,                 \* where the Git watcher is and what it still has to do
    other,               \* a second gateway call in progress, not running now
    trip,                \* a save of the pipeline state and the load that follows
    listing,             \* a listing of the Drive: the folders and what it returned
    chunker,             \* a call of chunk_text: its arguments and what it returned
    config,              \* self.config["text_processing"] of the watcher
    args                 \* the --mode argument and the RUN_MODE variable of the process

\* What only the specifications of a single function use, and what a process
\* reads once when it starts
apart == <<listing, chunker, config, args>>

\* What the Local and the Drive watcher leave alone
aside == <<repositories, git, other, trip, apart>>

watch == <<watcher, wpc, now, source, last_check_time, known_files, changes,
           saved, cycle, edits, hist, aside>>

vars == <<DATABASE_PROVIDER, documents, document_rows, document_metadata,
          call, last, calls, faults, watch>>

store == <<documents, document_rows, document_metadata>>

(***************************************************************************)
(* Inputs. A content is known by its version number and its length; a      *)
(* chunk is the slice [from, to) of that content.                          *)
(***************************************************************************)
Versions == {1, 2}
Lengths == {u * LenUnit : u \in 0..MaxUnits}

Docs == [v : Versions, len : Lengths]

\* The contents file f can have. The text of an image is its file name
\* (extract_text_from_file), one unit long.
DocsOf(f) == IF get_mime_type(f) \in ImageMimes THEN {d \in Docs : d.len = LenUnit} ELSE Docs

Configs == {[chunk_size |-> DEFAULT_CHUNK_SIZE, chunk_overlap |-> DEFAULT_CHUNK_OVERLAP]}

(***************************************************************************)
(* text_processor.py                                                       *)
(***************************************************************************)
\* range(0, n, step) for step > 0
RECURSIVE RangeFrom(_, _, _)
RangeFrom(i, n, step) ==
    IF i >= n THEN <<>> ELSE <<i>> \o RangeFrom(i + step, n, step)

Min(a, b) == IF a < b THEN a ELSE b

\* chunk_text raises ValueError when range() is given a zero step
chunk_text_raises(len, chunk_size, overlap) ==
    len > 0 /\ chunk_size - overlap = 0

\* Mutant: the window that is shorter than chunk_size is dropped
chunk_windows_FullOnly(len, chunk_size, overlap) ==
    IF len = 0 \/ chunk_size - overlap <= 0 THEN <<>>
    ELSE LET starts == RangeFrom(0, len, chunk_size - overlap)
             win(k) == [from |-> starts[k], to |-> Min(starts[k] + chunk_size, len)]
         IN  SelectSeq([k \in 1..Len(starts) |-> win(k)],
                       LAMBDA w : w.to - w.from = chunk_size)

\* Mutant: the slice takes one character more, text[i:i+chunk_size+1]
chunk_windows_OneMore(len, chunk_size, overlap) ==
    IF len = 0 \/ chunk_size - overlap <= 0 THEN <<>>
    ELSE LET starts == RangeFrom(0, len, chunk_size - overlap)
             win(k) == [from |-> starts[k], to |-> Min(starts[k] + chunk_size + 1, len)]
         IN  SelectSeq([k \in 1..Len(starts) |-> win(k)], LAMBDA w : w.to > w.from)

\* The windows chunk_text cuts from a text of length len: text[i:i+chunk_size]
\* for i in range(0, len, chunk_size - overlap), the empty ones dropped.
chunk_windows(len, chunk_size, overlap) ==
    IF len = 0 \/ chunk_size - overlap <= 0 THEN <<>>
    ELSE LET starts == RangeFrom(0, len, chunk_size - overlap)
             win(k) == [from |-> starts[k], to |-> Min(starts[k] + chunk_size, len)]
         IN  SelectSeq([k \in 1..Len(starts) |-> win(k)], LAMBDA w : w.to > w.from)

\* chunk_text on the text of version v
chunk_text(v, len, chunk_size, overlap) ==
    LET w == chunk_windows(len, chunk_size, overlap)
    IN  [k \in 1..Len(w) |-> [v |-> v, len |-> len, from |-> w[k].from, to |-> w[k].to]]

(***************************************************************************)
(* chunk_text on its own, on a text given character by character           *)
(***************************************************************************)
\* The characters of a text: two letters, a carriage return, a null byte
NUL == "NUL"
Alphabet == {"a", "b", "\r", NUL}

\* Two texts of twelve characters, one of letters only and one with
\* carriage returns
Twelve == <<"a", "b", "c", "d", "e", "f", "g", "h", "i", "j", "k", "l">>
TwelveCR == <<"a", "b", "\r", "d", "e", "f", "\r", "h", "i", "j", "\r", "l">>

Texts == UNION {[1..n -> Alphabet] : n \in 0..MaxText} \cup {Twelve, TwelveCR}

\* text.replace('\u0000', '').replace('\r', '')
replace(text) == SelectSeq(text, LAMBDA c : c \notin {NUL, "\r"})

\* What chunk_text returns: the slices of the text after the replacements, and
\* the offset at which each starts
chunk_slices(text, chunk_size, overlap) ==
    IF text = <<>> THEN <<>>
    ELSE LET t == replace(text)
             w == chunk_windows(Len(t), chunk_size, overlap)
         IN  [k \in 1..Len(w) |-> [start |-> w[k].from,
                                   chunk |-> SubSeq(t, w[k].from + 1, w[k].to)]]

NoChunker == [pc |-> "off", text |-> <<>>, chunk_size |-> 0, overlap |-> 0, chunks |-> <<>>]

\* chunk_text(text, chunk_size, overlap): range() raises ValueError on a step
\* of zero when the text is not empty
ChunkText ==
    /\ chunker.pc = "start"
    /\ chunker' =
          IF chunker.text # <<>> /\ chunker.chunk_size - chunker.overlap = 0
          THEN [chunker EXCEPT !.pc = "raised"]
          ELSE [chunker EXCEPT !.pc = "returned",
                               !.chunks = chunk_slices(chunker.text, chunker.chunk_size,
                                                       chunker.overlap)]
    /\ UNCHANGED <<DATABASE_PROVIDER, store, call, last, calls, faults, watcher, wpc,
                   now, source, last_check_time, known_files, changes, saved, cycle,
                   edits, hist, repositories, git, other, trip, listing, config, args>>

is_tabular_file(mime_type) == mime_type \in tabular_mime_types

\* A tabular file of u units of text has a header line and u + 1 data rows; the
\* schema of an empty file is [] (next() raises, caught).
extract_schema_from_csv(d) == IF d.len > 0 THEN <<d>> ELSE <<>>

extract_rows_from_csv(d) ==
    [k \in 1..(IF d.len > 0 THEN d.len \div LenUnit + 1 ELSE 0) |-> [of |-> d, row |-> k]]

\* create_embeddings: one vector per chunk, in order
Embedding(chunk) == [of |-> chunk]

(***************************************************************************)
(* The tables.                                                             *)
(***************************************************************************)
BagOfSeq(s) ==
    LET S == {s[k] : k \in 1..Len(s)}
    IN  [r \in S |-> Cardinality({k \in 1..Len(s) : s[k] = r})]

\* The records of bag b that are in set S
BagRestrict(b, S) == [r \in S |-> b[r]]

\* Mutant: a removal that removes nothing
FnWithout_KeepsAll(m, id) == m

FnWithout(m, id) == [k \in DOMAIN m \ {id} |-> m[k]]

FnWith(m, id, rec) == [k \in DOMAIN m \cup {id} |-> IF k = id THEN rec ELSE m[k]]

ChunksOf(f) == BagRestrict(documents, {r \in DOMAIN documents : r.file_id = f})
RowsOf(f) == BagRestrict(document_rows, {r \in DOMAIN document_rows : r.dataset_id = f})
MetaOf(f) == IF f \in DOMAIN document_metadata THEN {document_metadata[f]} ELSE {}

\* Mutant: the delete matches no chunk
DocumentsWithout_MatchesNone(f) == documents

\* Mutant: a DELETE FROM documents without its WHERE
DocumentsWithout_Any(f) == EmptyBag

\* DELETE FROM documents WHERE metadata->>'file_id' = f
DocumentsWithout(f) == BagRestrict(documents, {r \in DOMAIN documents : r.file_id # f})

\* Mutant: the delete matches no row
RowsWithout_MatchesNone(f) == document_rows

\* DELETE FROM document_rows WHERE dataset_id = f
RowsWithout(f) == BagRestrict(document_rows, {r \in DOMAIN document_rows : r.dataset_id # f})

\* Mutant: the metadata record is left in place
MetadataWithout_MatchesNone(f) == document_metadata

\* DELETE FROM document_metadata WHERE id = f
MetadataWithout(f) == FnWithout(document_metadata, f)

RecordsOf(f) == [chunks |-> ChunksOf(f), rows |-> RowsOf(f), meta |-> MetaOf(f)]


(***************************************************************************)
(* A gateway call. db_handler's calls are "replace" (process_file_for_rag) *)
(* and "delete" (delete_document_by_file_id); postgres_handler's are       *)
(* "pg_replace" and "pg_delete".                                           *)
(***************************************************************************)
NoDoc == [v |-> 0, len |-> 0]
NoConfig == [chunk_size |-> 0, chunk_overlap |-> 0]
NoRecords == [chunks |-> EmptyBag, rows |-> EmptyBag, meta |-> {}]
NoSchema == <<>>          \* schema IS NULL
EmptyListSchema == <<NoDoc>>  \* schema = '[]'

NoCall ==
    [op |-> "none", pc |-> "idle", by |-> "none", file_id |-> "", doc |-> NoDoc,
     config |-> NoConfig, i |-> 0, exists |-> FALSE, nemb |-> 0,
     result |-> "none", raised |-> {}, pre |-> NoRecords]

\* The call before the one in progress: the call as it returned, without its
\* snapshot, the records of its file when it returned, and whether it found
\* chunks and left some of them.
NoLast == [c |-> NoCall, post |-> NoRecords, found_chunks |-> FALSE, kept_chunks |-> FALSE]

\* Mutant: a replace that does not delete first
NewCall_NoDelete(op, by, f, d, cfg) ==
    [NoCall EXCEPT !.op = op, !.by = by, !.file_id = f, !.doc = d, !.config = cfg,
                   !.pre = RecordsOf(f),
                   !.pc = CASE op \in {"delete", "pg_delete"} -> "del_docs"
                            [] op = "pg_replace" -> "pg_meta"
                            [] OTHER -> IF DATABASE_PROVIDER = "postgres"
                                        THEN "meta_upsert" ELSE "meta_select"]

\* A call starts with the delete: await delete_document_by_file_id(file_id)
NewCall(op, by, f, d, cfg) ==
    [NoCall EXCEPT !.op = op, !.pc = "del_docs", !.by = by, !.file_id = f,
                   !.doc = d, !.config = cfg, !.pre = RecordsOf(f)]

PgOps == {"pg_replace", "pg_delete"}

\* The chunks the call in progress cuts from its text
CallChunks(c) ==
    IF c.op = "pg_replace"
    THEN chunk_text(c.doc.v, c.doc.len, DEFAULT_CHUNK_SIZE, DEFAULT_CHUNK_OVERLAP)
    ELSE chunk_text(c.doc.v, c.doc.len, c.config.chunk_size, c.config.chunk_overlap)

\* The title given with a content names the file and the content
TitleOf(f, d) == [name |-> f, rev |-> d]

\* A store or embedding call may raise while the fault budget lasts
Outcomes == IF faults < MaxFaults THEN {TRUE, FALSE} ELSE {TRUE}

Count(ok) == faults' = IF ok THEN faults ELSE faults + 1

Raised(c, step, ok) == IF ok THEN c.raised ELSE c.raised \cup {step}

Return(c, res) == [c EXCEPT !.pc = "done", !.result = res]

\* Where a call goes when its delete part is over
AfterDelete(c) ==
    CASE c.op = "delete" -> Return(c, "None")
      [] c.op = "pg_delete" -> Return(c, "None")
      [] c.op = "pg_replace" -> [c EXCEPT !.pc = "pg_meta"]
      [] OTHER -> [c EXCEPT !.pc = IF DATABASE_PROVIDER = "postgres"
                                    THEN "meta_upsert" ELSE "meta_select"]

\* The two inner try blocks of the delete: in db_handler's supabase branch and
\* in postgres_handler; db_handler's postgres branch has the outer try only.
NestedTry(c) == c.op \in PgOps \/ DATABASE_PROVIDER = "supabase"

(***************************************************************************)
(* delete_document_by_file_id: three deletes, each its own statement.      *)
(***************************************************************************)
DeleteDocuments ==
    /\ call.pc = "del_docs"
    /\ \E ok \in Outcomes :
        /\ Count(ok)
        /\ documents' = IF ok THEN DocumentsWithout(call.file_id)
                        ELSE documents
        /\ LET c == [call EXCEPT !.raised = Raised(call, "del_docs", ok)]
           IN  call' = IF ok THEN [c EXCEPT !.pc = "del_rows"] ELSE AfterDelete(c)
    /\ UNCHANGED <<DATABASE_PROVIDER, document_rows, document_metadata, last, calls, watch>>

DeleteRows ==
    /\ call.pc = "del_rows"
    /\ \E ok \in Outcomes :
        /\ Count(ok)
        /\ document_rows' = IF ok THEN RowsWithout(call.file_id)
                            ELSE document_rows
        /\ LET c == [call EXCEPT !.raised = Raised(call, "del_rows", ok)]
           IN  call' = IF ok \/ NestedTry(c) THEN [c EXCEPT !.pc = "del_meta"]
                       ELSE AfterDelete(c)
    /\ UNCHANGED <<DATABASE_PROVIDER, documents, document_metadata, last, calls, watch>>

DeleteMetadata ==
    /\ call.pc = "del_meta"
    /\ \E ok \in Outcomes :
        /\ Count(ok)
        /\ document_metadata' = IF ok THEN MetadataWithout(call.file_id)
                                ELSE document_metadata
        /\ call' = AfterDelete([call EXCEPT !.raised = Raised(call, "del_meta", ok)])
    /\ UNCHANGED <<DATABASE_PROVIDER, documents, document_rows, last, calls, watch>>

(***************************************************************************)
(* insert_or_update_document_metadata                                      *)
(***************************************************************************)
CallSchema(c) ==
    IF is_tabular_file(get_mime_type(c.file_id)) THEN extract_schema_from_csv(c.doc) ELSE NoSchema

CallRows(c) ==
    IF is_tabular_file(get_mime_type(c.file_id)) THEN extract_rows_from_csv(c.doc) ELSE <<>>

AfterMetadata(c) ==
    IF CallRows(c) # <<>> THEN [c EXCEPT !.pc = "rows_del"] ELSE [c EXCEPT !.pc = "embed"]

MetadataRecord(c) == [title |-> TitleOf(c.file_id, c.doc), schema |-> CallSchema(c)]

\* postgres: INSERT ... ON CONFLICT (id) DO UPDATE, one statement
UpsertMetadata ==
    /\ call.pc = "meta_upsert"
    /\ \E ok \in Outcomes :
        /\ Count(ok)
        /\ document_metadata' = IF ok THEN FnWith(document_metadata, call.file_id, MetadataRecord(call))
                                ELSE document_metadata
        /\ call' = AfterMetadata([call EXCEPT !.raised = Raised(call, "meta_upsert", ok)])
    /\ UNCHANGED <<DATABASE_PROVIDER, documents, document_rows, last, calls, watch>>

\* supabase: select("*").eq("id", file_id)
SelectMetadata ==
    /\ call.pc = "meta_select"
    /\ \E ok \in Outcomes :
        /\ Count(ok)
        /\ LET c == [call EXCEPT !.raised = Raised(call, "meta_select", ok)]
           IN  call' = IF ok THEN [c EXCEPT !.pc = "meta_write",
                                            !.exists = call.file_id \in DOMAIN document_metadata]
                       ELSE AfterMetadata(c)
    /\ UNCHANGED <<DATABASE_PROVIDER, store, last, calls, watch>>

\* Mutant: a table without its key, where an insert of an id that is there
\* takes the place of the record
WriteMetadata_InsertOverwrites ==
    /\ call.pc = "meta_write"
    /\ \E ok \in Outcomes :
        /\ Count(ok)
        /\ document_metadata' =
              IF ok THEN FnWith(document_metadata, call.file_id, MetadataRecord(call))
              ELSE document_metadata
        /\ call' = AfterMetadata([call EXCEPT !.raised = Raised(call, "meta_write", ok)])
    /\ UNCHANGED <<DATABASE_PROVIDER, documents, document_rows, last, calls, watch>>

\* supabase: update(data) when the select found a record, insert(data) otherwise;
\* data carries the schema key only when the schema is not empty.
WriteMetadata ==
    /\ call.pc = "meta_write"
    /\ \E ok \in Outcomes :
        /\ Count(ok)
        /\ LET f == call.file_id
               new == MetadataRecord(call)
               has == f \in DOMAIN document_metadata
               updated == IF new.schema # NoSchema THEN new
                          ELSE [new EXCEPT !.schema = document_metadata[f].schema]
               conflict == ok /\ ~call.exists /\ has
           IN  /\ document_metadata' =
                    IF ~ok THEN document_metadata
                    ELSE IF call.exists
                         THEN (IF has THEN FnWith(document_metadata, f, updated) ELSE document_metadata)
                         ELSE (IF has THEN document_metadata ELSE FnWith(document_metadata, f, new))
               /\ call' = AfterMetadata([call EXCEPT !.raised =
                              IF ok /\ ~conflict THEN call.raised ELSE call.raised \cup {"meta_write"}])
    /\ UNCHANGED <<DATABASE_PROVIDER, documents, document_rows, last, calls, watch>>

(***************************************************************************)
(* insert_document_rows                                                    *)
(***************************************************************************)
RowRecord(c, k) == [dataset_id |-> c.file_id, row_data |-> CallRows(c)[k]]

RowsDelete ==
    /\ call.pc = "rows_del"
    /\ \E ok \in Outcomes :
        /\ Count(ok)
        /\ document_rows' = IF ok THEN RowsWithout(call.file_id)
                            ELSE document_rows
        /\ LET c == [call EXCEPT !.raised = Raised(call, "rows_del", ok)]
           IN  call' = IF ok THEN [c EXCEPT !.pc = "rows_ins", !.i = 0] ELSE [c EXCEPT !.pc = "embed"]
    /\ UNCHANGED <<DATABASE_PROVIDER, documents, document_metadata, last, calls, watch>>

\* postgres: executemany, all rows or none; supabase: one insert per row
RowsInsert ==
    /\ call.pc = "rows_ins"
    /\ \E ok \in Outcomes :
        /\ Count(ok)
        /\ LET n == Len(CallRows(call))
               c == [call EXCEPT !.raised = Raised(call, "rows_ins", ok)]
               all == BagOfSeq([k \in 1..n |-> RowRecord(call, k)])
               one == SetToBag({RowRecord(call, call.i + 1)})
           IN  IF DATABASE_PROVIDER = "postgres"
               THEN /\ document_rows' = IF ok THEN document_rows (+) all ELSE document_rows
                    /\ call' = [c EXCEPT !.pc = "embed", !.i = 0]
               ELSE /\ document_rows' = IF ok THEN document_rows (+) one ELSE document_rows
                    /\ call' = IF ok /\ call.i + 1 < n THEN [c EXCEPT !.i = call.i + 1]
                               ELSE [c EXCEPT !.pc = "embed", !.i = 0]
    /\ UNCHANGED <<DATABASE_PROVIDER, documents, document_metadata, last, calls, watch>>

(***************************************************************************)
(* chunk_text and create_embeddings, then insert_document_chunks           *)
(***************************************************************************)
\* What create_embeddings can do: return one vector per chunk, raise, or
\* return fewer vectors than chunks.
EmbedOutcomes == IF faults < MaxFaults THEN {"ok", "raise", "short"} ELSE {"ok"}

ChunkAndEmbed ==
    /\ call.pc = "embed"
    /\ LET n == Len(CallChunks(call))
       IN  IF chunk_text_raises(call.doc.len, call.config.chunk_size, call.config.chunk_overlap)
           THEN /\ call' = Return([call EXCEPT !.raised = call.raised \cup {"chunk_text"}], "False")
                /\ UNCHANGED faults
           ELSE IF n = 0
           THEN /\ call' = Return(call, "None")
                /\ UNCHANGED faults
           ELSE \E out \in EmbedOutcomes :
                /\ Count(out = "ok")
                /\ call' = CASE out = "ok" -> [call EXCEPT !.pc = "chunks_ins", !.nemb = n, !.i = 0]
                             [] out = "short" ->
                                  [call EXCEPT !.pc = "chunks_ins", !.nemb = n - 1, !.i = 0,
                                               !.raised = call.raised \cup {"embed_short"}]
                             [] OTHER -> Return([call EXCEPT !.raised = call.raised \cup {"embed"}], "False")
    /\ UNCHANGED <<DATABASE_PROVIDER, store, last, calls, watch>>

\* Mutant: the chunks are numbered from 1
ChunkRecord_FromOne(c, k) ==
    LET ch == CallChunks(c)[k]
    IN  [content |-> ch, embedding |-> Embedding(ch), file_id |-> c.file_id,
         file_title |-> TitleOf(c.file_id, c.doc), mime_type |-> get_mime_type(c.file_id),
         chunk_index |-> k, total_chunks |-> -1, type |-> "",
         file_contents |-> get_mime_type(c.file_id) \in ImageMimes]

ChunkRecord(c, k) ==
    LET ch == CallChunks(c)[k]
    IN  [content |-> ch, embedding |-> Embedding(ch), file_id |-> c.file_id,
         file_title |-> TitleOf(c.file_id, c.doc), mime_type |-> get_mime_type(c.file_id),
         chunk_index |-> k - 1, total_chunks |-> -1, type |-> "",
         file_contents |-> get_mime_type(c.file_id) \in ImageMimes]

InsertChunks ==
    /\ call.pc = "chunks_ins"
    /\ LET n == Len(CallChunks(call))
       IN  IF call.nemb # n
           THEN \* ValueError, caught in insert_document_chunks itself
                /\ call' = Return([call EXCEPT !.raised = call.raised \cup {"len_mismatch"}], "True")
                /\ UNCHANGED <<documents, faults>>
           ELSE \E ok \in Outcomes :
                /\ Count(ok)
                /\ LET c == [call EXCEPT !.raised = Raised(call, "chunks_ins", ok)]
                       all == BagOfSeq([k \in 1..n |-> ChunkRecord(call, k)])
                       one == SetToBag({ChunkRecord(call, call.i + 1)})
                   IN  IF DATABASE_PROVIDER = "postgres"
                       THEN /\ documents' = IF ok THEN documents (+) all ELSE documents
                            /\ call' = Return(c, "True")
                       ELSE /\ documents' = IF ok THEN documents (+) one ELSE documents
                            /\ call' = IF ok /\ call.i + 1 < n THEN [c EXCEPT !.i = call.i + 1]
                                       ELSE Return(c, "True")
    /\ UNCHANGED <<DATABASE_PROVIDER, document_rows, document_metadata, last, calls, watch>>

(***************************************************************************)
(* postgres_handler.process_file_for_rag                                   *)
(***************************************************************************)
\* title and url are the file path
PgTitle(f) == [name |-> f, rev |-> NoDoc]

\* INSERT ... ON CONFLICT (id) DO UPDATE SET title, url, created_at: the
\* schema column of a record that is already there is left as it is.
PgUpsertMetadata ==
    /\ call.pc = "pg_meta"
    /\ \E ok \in Outcomes :
        /\ Count(ok)
        /\ LET f == call.file_id
               rec == [title |-> PgTitle(f),
                       schema |-> IF f \in DOMAIN document_metadata
                                  THEN document_metadata[f].schema ELSE NoSchema]
               c == [call EXCEPT !.raised = Raised(call, "pg_meta", ok)]
           IN  /\ document_metadata' = IF ok THEN FnWith(document_metadata, f, rec)
                                       ELSE document_metadata
               /\ call' = IF ~ok THEN Return(c, "error")
                          ELSE IF call.file_id \in TabularPrefixed
                               THEN [c EXCEPT !.pc = "pg_tab_schema"]
                               ELSE [c EXCEPT !.pc = "pg_embed"]
    /\ UNCHANGED <<DATABASE_PROVIDER, documents, document_rows, last, calls, watch>>

\* _process_text_file: chunk_text(content), create_embeddings(chunks)
PgChunkAndEmbed ==
    /\ call.pc = "pg_embed"
    /\ LET n == Len(CallChunks(call))
       IN  IF n = 0
           THEN \* create_embeddings([]) is [], "Embedding generation failed"
                /\ call' = Return(call, "error")
                /\ UNCHANGED faults
           ELSE \E out \in EmbedOutcomes :
                /\ Count(out = "ok")
                /\ call' = CASE out = "ok" -> [call EXCEPT !.pc = "pg_ins", !.nemb = n, !.i = 0]
                             [] out = "short" ->
                                  Return([call EXCEPT !.raised = call.raised \cup {"embed_short"}], "error")
                             [] OTHER -> Return([call EXCEPT !.raised = call.raised \cup {"embed"}], "error")
    /\ UNCHANGED <<DATABASE_PROVIDER, store, last, calls, watch>>

PgChunkRecord(c, k) ==
    LET ch == CallChunks(c)[k]
    IN  [content |-> ch, embedding |-> Embedding(ch), file_id |-> c.file_id,
         file_title |-> PgTitle(c.file_id), mime_type |-> "",
         chunk_index |-> k - 1, total_chunks |-> Len(CallChunks(c)), type |-> "text",
         file_contents |-> FALSE]

\* one INSERT per chunk, each its own statement
PgInsertChunk ==
    /\ call.pc = "pg_ins"
    /\ \E ok \in Outcomes :
        /\ Count(ok)
        /\ LET c == [call EXCEPT !.raised = Raised(call, "pg_ins", ok)]
           IN  /\ documents' = IF ok THEN documents (+) SetToBag({PgChunkRecord(call, call.i + 1)})
                               ELSE documents
               /\ call' = IF ~ok THEN Return(c, "error")
                          ELSE IF call.i + 1 < Len(CallChunks(call))
                               THEN [c EXCEPT !.i = call.i + 1]
                               ELSE Return(c, "success")
    /\ UNCHANGED <<DATABASE_PROVIDER, document_rows, document_metadata, last, calls, watch>>

\* _process_tabular_file: extract_schema_from_csv and extract_rows_from_csv are
\* given a StringIO, which has no decode(): both return []. UPDATE ... SET
\* schema = '[]', then no row to store.
PgTabularSchema ==
    /\ call.pc = "pg_tab_schema"
    /\ \E ok \in Outcomes :
        /\ Count(ok)
        /\ LET f == call.file_id
               c == [call EXCEPT !.raised = Raised(call, "pg_tab_schema", ok)]
           IN  /\ document_metadata' =
                    IF ok /\ f \in DOMAIN document_metadata
                    THEN [document_metadata EXCEPT ![f].schema = EmptyListSchema]
                    ELSE document_metadata
               /\ call' = IF ok THEN [c EXCEPT !.pc = "pg_tab_embed"] ELSE Return(c, "error")
    /\ UNCHANGED <<DATABASE_PROVIDER, documents, document_rows, last, calls, watch>>

\* create_embeddings([text_content]) for the one summary text of the dataset
PgTabularEmbed ==
    /\ call.pc = "pg_tab_embed"
    /\ \E out \in EmbedOutcomes :
        /\ Count(out = "ok")
        /\ call' = CASE out = "ok" -> [call EXCEPT !.pc = "pg_tab_ins", !.nemb = 1]
                     [] out = "short" ->
                          \* if embeddings: is false, nothing is inserted
                          Return([call EXCEPT !.raised = call.raised \cup {"embed_short"}], "success")
                     [] OTHER -> Return([call EXCEPT !.raised = call.raised \cup {"embed"}], "error")
    /\ UNCHANGED <<DATABASE_PROVIDER, store, last, calls, watch>>

\* The summary text names the path, the schema [] and no row: it does not
\* depend on the content of the file.
PgTabularRecord(c) ==
    LET ch == [v |-> 0, len |-> 0, from |-> 0, to |-> 0]
    IN  [content |-> ch, embedding |-> Embedding(ch), file_id |-> c.file_id,
         file_title |-> PgTitle(c.file_id), mime_type |-> "",
         chunk_index |-> -1, total_chunks |-> -1, type |-> "tabular",
         file_contents |-> FALSE]

PgTabularInsert ==
    /\ call.pc = "pg_tab_ins"
    /\ \E ok \in Outcomes :
        /\ Count(ok)
        /\ LET c == [call EXCEPT !.raised = Raised(call, "pg_tab_ins", ok)]
           IN  /\ documents' = IF ok THEN documents (+) SetToBag({PgTabularRecord(call)})
                               ELSE documents
               /\ call' = Return(c, IF ok THEN "success" ELSE "error")
    /\ UNCHANGED <<DATABASE_PROVIDER, document_rows, document_metadata, last, calls, watch>>

(***************************************************************************)
(* The direct client of the gateway: one call after the other, all on one  *)
(* file and through one of the two handlers.                               *)
(***************************************************************************)
CanStart(f, op) ==
    /\ call.pc \in {"idle", "done"}
    /\ calls < MaxCalls
    /\ call.op # "none" => (f = call.file_id /\ (op \in PgOps) = (call.op \in PgOps))
    /\ op \in PgOps => DATABASE_PROVIDER = "postgres"

\* The first content ingested in a run is called version 1
ClientDocs(f) == {d \in DocsOf(f) : last.c.op = "none" /\ call.op \notin {"replace", "pg_replace"} => d.v = 1}

Remember ==
    last' = [c |-> [call EXCEPT !.pre = NoRecords],
             post |-> RecordsOf(call.file_id),
             found_chunks |-> call.pre.chunks # EmptyBag,
             kept_chunks |-> \E r \in DOMAIN call.pre.chunks : r \in DOMAIN documents]

StartReplace ==
    /\ \E f \in ClientFiles, cfg \in Configs :
        /\ CanStart(f, "replace")
        /\ \E d \in ClientDocs(f) : call' = NewCall("replace", "client", f, d, cfg)
    /\ Remember
    /\ calls' = calls + 1
    /\ UNCHANGED <<DATABASE_PROVIDER, store, faults, watch>>

StartDelete ==
    /\ \E f \in ClientFiles :
        /\ CanStart(f, "delete")
        /\ call' = NewCall("delete", "client", f, NoDoc, NoConfig)
    /\ Remember
    /\ calls' = calls + 1
    /\ UNCHANGED <<DATABASE_PROVIDER, store, faults, watch>>

StartPgReplace ==
    /\ \E f \in ClientFiles :
        /\ CanStart(f, "pg_replace")
        /\ \E d \in ClientDocs(f) : call' = NewCall("pg_replace", "client", f, d, NoConfig)
    /\ Remember
    /\ calls' = calls + 1
    /\ UNCHANGED <<DATABASE_PROVIDER, store, faults, watch>>

StartPgDelete ==
    /\ \E f \in ClientFiles :
        /\ CanStart(f, "pg_delete")
        /\ call' = NewCall("pg_delete", "client", f, NoDoc, NoConfig)
    /\ Remember
    /\ calls' = calls + 1
    /\ UNCHANGED <<DATABASE_PROVIDER, store, faults, watch>>

(***************************************************************************)
(* The watchers: LocalFileWatcher (Local_Files/file_watcher.py) and        *)
(* GoogleDriveWatcher (Google_Drive/drive_watcher.py).  A poll cycle lists *)
(* the changed files, processes them one by one through the gateway and    *)
(* saves the pipeline state.  Reading the clock, changing a file and       *)
(* ending a cycle each take one tick, so no two of them share a timestamp. *)
(***************************************************************************)
Watchers == {"local", "drive"}

\* os.walk and get_folder_contents list a folder's files before those of its
\* subfolders
WatchFiles == <<"a.txt", "csv/b.csv">>
WatchSet == {WatchFiles[k] : k \in DOMAIN WatchFiles}

\* The order in which a listing names the files the source has
ListOrder == WatchFiles \o <<"c.png", "d.zip">>

\* The lengths of a watched file: it has no text, or one unit of it
WatchLengths == {0, LenUnit}

\* '1970-01-01T00:00:00.000Z'
Epoch == 0

\* A datetime: what its clock face reads and whether it carries a time zone
\* (tzinfo, always UTC here) or is naive
naive(t) == [wall |-> t, aware |-> FALSE]
utc(t) == [wall |-> t, aware |-> TRUE]

\* a > b raises TypeError when one of the two is naive and the other is not
comparable(a, b) == a.aware = b.aware

\* save_state_async: last_check_time.replace(tzinfo=timezone.utc) if it is
\* naive, the same datetime otherwise; what is stored is read back as it is
normalize(t) == [t EXCEPT !.aware = TRUE]

\* A start that takes the time of the start in place of the epoch
EpochOf_Now(w) == utc(now)

\* load_config: the epoch, naive in the Local watcher, UTC in the Drive watcher
EpochOf(w) == IF w = "drive" THEN utc(Epoch) ELSE naive(Epoch)

NoState == [exists |-> FALSE, last_check_time |-> utc(Epoch), known_files |-> <<>>]

\* known: known_files when the cycle listed; listed: the files it listed;
\* failed: the files whose processing failed in it; failed_before: those that
\* failed in the cycle before; trashed: the files it listed as trashed;
\* unsaved: the files whose known_files entry a restart since then has lost;
\* save_failed: the last save of the state failed
NoHist ==
    [known |-> <<>>, listed |-> {}, failed |-> {}, failed_before |-> {}, trashed |-> {},
     unsaved |-> {}, save_failed |-> FALSE]

\* The entry of file f in a listing
FileEntry(f) ==
    [id |-> f, mimeType |-> get_mime_type(f),
     modifiedTime |-> source[f].mtime, trashed |-> source[f].trashed]

Listing ==
    LET present == SelectSeq(ListOrder, LAMBDA f : f \in DOMAIN source)
    IN  [k \in DOMAIN present |-> FileEntry(present[k])]

Ids(entries) == {entries[k].id : k \in DOMAIN entries}

Listed(entries) ==
    [known |-> known_files, listed |-> Ids(entries), failed |-> {},
     failed_before |-> hist.failed,
     trashed |-> Ids(SelectSeq(entries, LAMBDA e : e.trashed)),
     unsaved |-> {}, save_failed |-> hist.save_failed]

Failed(f) == [hist EXCEPT !.failed = @ \cup {f}]

\* GoogleDriveWatcher.load_config: the default of supported_mime_types
supported_mime_types == {"application/pdf", "text/plain", "text/html", "text/csv"}

\* t.split('/')[0]; a MIME type starts with it when it has the same first part
major(t) ==
    CASE t \in {"application/pdf", "application/zip"} -> "application"
      [] t \in {"text/plain", "text/html", "text/csv"} -> "text"
      [] OTHER -> "image"

\* if not any(mime_type.startswith(t.split('/')[0]) or mime_type == t ...)
supported(mime_type) ==
    \E t \in supported_mime_types : major(mime_type) = major(t) \/ mime_type = t

\* StateManager.save_state: the error is logged, False is returned
save_state(ok, t) ==
    /\ saved' = IF ok
                THEN [exists |-> TRUE, last_check_time |-> normalize(t),
                      known_files |-> known_files]
                ELSE saved
    /\ hist' = [hist EXCEPT !.save_failed = ~ok]

\* Mutant: the state save does not wait for the end of the loop
CycleDone_Always == TRUE

\* if text: the text as extract_text_from_file returns it is not empty.
\* doc.len counts the characters chunk_text keeps, stripped the carriage
\* returns and NUL characters it removes.
truthy(f) == source[f].doc.len + source[f].stripped > 0

\* Local_Files/main.py: --mode of the command line, 'continuous' without it
local_mode == IF args.mode # "unset" THEN args.mode ELSE "continuous"

\* docker_entrypoint.py: --mode, by default RUN_MODE, 'continuous' without both
entrypoint_mode ==
    CASE args.mode # "unset" -> args.mode
      [] args.RUN_MODE # "unset" -> args.RUN_MODE
      [] OTHER -> "continuous"

\* The loop over the changed files of the cycle is over
CycleDone == changes = <<>>

\* LocalFileWatcher.get_changes, called by check_for_changes.  mod_time is
\* naive; it is compared with last_check_time for the files of known_files.
LocalGetChanges ==
    /\ watcher = "local" /\ wpc = "sleep" /\ cycle < MaxCycles
    /\ \E ok \in Outcomes :
        /\ Count(ok)
        /\ IF /\ ok
              /\ \A k \in DOMAIN Listing :
                    Listing[k].id \in DOMAIN known_files
                        => comparable(naive(Listing[k].modifiedTime), last_check_time)
           THEN /\ changes' = SelectSeq(Listing, LAMBDA e :
                                  \/ e.id \notin DOMAIN known_files
                                  \/ e.modifiedTime > last_check_time.wall)
                /\ last_check_time' = naive(now + 1)
                /\ hist' = Listed(changes')
                /\ wpc' = "files"
           ELSE /\ wpc' = "raised"
                /\ UNCHANGED <<changes, last_check_time, hist>>
    /\ now' = now + 1
    /\ cycle' = cycle + 1
    /\ UNCHANGED <<DATABASE_PROVIDER, aside, store, call, last, calls, watcher,
                   source, known_files, saved, edits>>

\* LocalFileWatcher.process_file up to the call of process_file_for_rag
LocalProcessFile ==
    /\ watcher = "local" /\ wpc = "files" /\ changes # <<>>
    /\ LET file == Head(changes)
           text == source[file.id].doc
       IN  \E ok \in Outcomes :
            /\ Count(ok)
            /\ CASE ~ok ->
                      /\ wpc' = "raised"
                      /\ hist' = Failed(file.id)
                      /\ UNCHANGED <<call, changes>>
                 [] ok /\ ~truthy(file.id) ->
                      /\ changes' = Tail(changes)
                      /\ UNCHANGED <<call, wpc, hist>>
                 [] OTHER ->
                      /\ call' = NewCall("replace", "watcher", file.id, text, config)
                      /\ wpc' = "rag"
                      /\ UNCHANGED <<changes, hist>>
    /\ UNCHANGED <<DATABASE_PROVIDER, aside, store, last, calls, watcher, now, source,
                   last_check_time, known_files, saved, cycle, edits>>

\* ... and from its return: self.known_files[file_path] = file['modifiedTime']
LocalProcessFileReturn ==
    /\ watcher = "local" /\ wpc = "rag" /\ call.pc = "done"
    /\ known_files' = FnWith(known_files, Head(changes).id, Head(changes).modifiedTime)
    /\ hist' = IF call.result = "False" THEN Failed(call.file_id) ELSE hist
    /\ changes' = Tail(changes)
    /\ call' = NoCall
    /\ wpc' = "files"
    /\ UNCHANGED <<DATABASE_PROVIDER, aside, store, last, calls, faults, watcher, now,
                   source, last_check_time, saved, cycle, edits>>

\* LocalFileWatcher.check_for_changes after its loop: self.save_state()
LocalSaveState ==
    /\ watcher = "local" /\ wpc = "files" /\ CycleDone
    /\ \E ok \in Outcomes : Count(ok) /\ save_state(ok, last_check_time)
    /\ wpc' = IF local_mode = "single" THEN "exited" ELSE "sleep"
    /\ UNCHANGED <<DATABASE_PROVIDER, aside, store, call, last, calls, watcher, now,
                   source, last_check_time, known_files, changes, cycle, edits>>

\* GoogleDriveWatcher.watch_for_changes: the listing.  A file created after
\* time_str is also modified after it.
DriveList ==
    /\ watcher = "drive" /\ wpc = "sleep" /\ cycle < MaxCycles
    /\ \E ok \in Outcomes :
        /\ Count(ok)
        /\ IF ok
           THEN /\ changes' = SelectSeq(Listing, LAMBDA e :
                                  e.modifiedTime > last_check_time.wall)
                /\ hist' = Listed(changes')
                /\ wpc' = "files"
           ELSE \* except Exception: time.sleep(10)
                UNCHANGED <<changes, hist, wpc>>
    /\ cycle' = cycle + 1
    /\ UNCHANGED <<DATABASE_PROVIDER, aside, store, call, last, calls, watcher, now,
                   source, last_check_time, known_files, saved, edits>>

\* GoogleDriveWatcher.process_file up to the call of the gateway
DriveProcessFile ==
    /\ watcher = "drive" /\ wpc = "files" /\ changes # <<>>
    /\ LET file == Head(changes)
           text == source[file.id].doc
       IN  CASE file.trashed ->
                  /\ call' = NewCall("delete", "watcher", file.id, NoDoc, NoConfig)
                  /\ wpc' = "trashed"
                  /\ UNCHANGED <<changes, hist, faults>>
             [] ~file.trashed /\ ~supported(file.mimeType) ->
                  /\ changes' = Tail(changes)
                  /\ UNCHANGED <<call, wpc, hist, faults>>
             [] OTHER ->
                  \E ok \in Outcomes :
                    /\ Count(ok)
                    /\ CASE ~ok ->  \* except Exception as e: print
                              /\ changes' = Tail(changes)
                              /\ hist' = Failed(file.id)
                              /\ UNCHANGED <<call, wpc>>
                         [] ok /\ ~truthy(file.id) ->
                              /\ changes' = Tail(changes)
                              /\ UNCHANGED <<call, wpc, hist>>
                         [] OTHER ->
                              /\ call' = NewCall("replace", "watcher", file.id, text, config)
                              /\ wpc' = "rag"
                              /\ UNCHANGED <<changes, hist>>
    /\ UNCHANGED <<DATABASE_PROVIDER, aside, store, last, calls, watcher, now, source,
                   last_check_time, known_files, saved, cycle, edits>>

\* ... from the return of process_file_for_rag:
\* self.known_files[file_id] = file.get('modifiedTime')
DriveProcessFileReturn ==
    /\ watcher = "drive" /\ wpc = "rag" /\ call.pc = "done"
    /\ known_files' = FnWith(known_files, Head(changes).id, Head(changes).modifiedTime)
    /\ hist' = IF call.result = "False" THEN Failed(call.file_id) ELSE hist
    /\ changes' = Tail(changes)
    /\ call' = NoCall
    /\ wpc' = "files"
    /\ UNCHANGED <<DATABASE_PROVIDER, aside, store, last, calls, faults, watcher, now,
                   source, last_check_time, saved, cycle, edits>>

\* ... and from the return of delete_document_by_file_id:
\* self.known_files.pop(file_id, None)
DriveTrashedReturn ==
    /\ watcher = "drive" /\ wpc = "trashed" /\ call.pc = "done"
    /\ known_files' = FnWithout(known_files, Head(changes).id)
    /\ changes' = Tail(changes)
    /\ call' = NoCall
    /\ wpc' = "files"
    /\ UNCHANGED <<DATABASE_PROVIDER, aside, store, last, calls, faults, watcher, now,
                   source, last_check_time, saved, cycle, edits, hist>>

\* GoogleDriveWatcher.watch_for_changes after its loop over the files
DriveSaveState ==
    /\ watcher = "drive" /\ wpc = "files" /\ CycleDone
    /\ last_check_time' = utc(now + 1)
    /\ now' = now + 1
    /\ \E ok \in Outcomes : Count(ok) /\ save_state(ok, utc(now + 1))
    /\ wpc' = "sleep"
    /\ UNCHANGED <<DATABASE_PROVIDER, aside, store, call, last, calls, watcher, source,
                   known_files, changes, cycle, edits>>

\* SIGINT while the watcher works on its files.  Neither watcher installs a
\* signal handler; KeyboardInterrupt is not an Exception, so the handlers of
\* process_file and process_file_for_rag_async let it through: the call is
\* left where it was.  GoogleDriveWatcher.watch_for_changes breaks out of its
\* loop, LocalFileWatcher.watch_for_changes does not catch it: the process ends.
Interrupt ==
    /\ watcher \in Watchers /\ wpc \in {"files", "rag"}
    /\ call' = [call EXCEPT !.pc = IF @ \in {"idle", "done"} THEN @ ELSE "interrupted"]
    /\ wpc' = "exited"
    /\ UNCHANGED <<DATABASE_PROVIDER, aside, store, last, calls, faults, watcher, now,
                   source, last_check_time, known_files, saved, cycle, edits, hist,
                   changes>>

\* The source between two cycles: a file gets a new content
ModifyFile ==
    /\ watcher \in Watchers /\ wpc = "sleep" /\ cycle > 0 /\ edits < MaxEdits
    /\ \E f \in WatchSet, len \in WatchLengths :
        /\ ~source[f].trashed
        /\ source' = [source EXCEPT ![f] =
                        [doc |-> [v |-> IF @.doc.v = 1 THEN 2 ELSE 1, len |-> len],
                         stripped |-> 0, mtime |-> now + 1, trashed |-> FALSE]]
    /\ now' = now + 1
    /\ edits' = edits + 1
    /\ UNCHANGED <<DATABASE_PROVIDER, aside, store, call, last, calls, faults, watcher,
                   wpc, last_check_time, known_files, changes, saved, cycle, hist>>

\* ... or gets it while a poll cycle is at work on the files it listed
ModifyMidCycle ==
    /\ watcher \in Watchers /\ wpc \in {"files", "rag"} /\ edits < MaxEdits
    /\ \E f \in WatchSet, len \in WatchLengths :
        /\ ~source[f].trashed
        /\ source' = [source EXCEPT ![f] =
                        [doc |-> [v |-> IF @.doc.v = 1 THEN 2 ELSE 1, len |-> len],
                         stripped |-> 0, mtime |-> now + 1, trashed |-> FALSE]]
    /\ now' = now + 1
    /\ edits' = edits + 1
    /\ UNCHANGED <<DATABASE_PROVIDER, aside, store, call, last, calls, faults, watcher,
                   wpc, last_check_time, known_files, changes, saved, cycle, hist>>

\* ... or a file of the Drive is moved to the trash, which the Drive reports
\* as a change
TrashFile ==
    /\ watcher = "drive" /\ wpc = "sleep" /\ cycle > 0 /\ edits < MaxEdits
    /\ \E f \in WatchSet :
        /\ ~source[f].trashed
        /\ source' = [source EXCEPT ![f].trashed = TRUE, ![f].mtime = now + 1]
    /\ now' = now + 1
    /\ edits' = edits + 1
    /\ UNCHANGED <<DATABASE_PROVIDER, aside, store, call, last, calls, faults, watcher,
                   wpc, last_check_time, known_files, changes, saved, cycle, hist>>

\* The watcher process is started again, __init__ and load_config: the state
\* is what load_state returns, the zero values when there is no record or the
\* read raises
Restart ==
    /\ watcher \in Watchers /\ wpc \in {"sleep", "raised"}
    /\ \E ok \in Outcomes :
        /\ Count(ok)
        /\ LET state == IF ok THEN saved ELSE NoState
           IN  /\ last_check_time' = IF state.exists THEN state.last_check_time
                                     ELSE EpochOf(watcher)
               /\ known_files' = state.known_files
               /\ hist' = [hist EXCEPT !.unsaved =
                             {f \in DOMAIN known_files :
                                 f \notin DOMAIN state.known_files
                                 \/ state.known_files[f] # known_files[f]}]
    /\ wpc' = "sleep"
    /\ changes' = <<>>
    /\ UNCHANGED <<DATABASE_PROVIDER, aside, store, call, last, calls, watcher, now,
                   source, saved, cycle, edits>>

(***************************************************************************)
(* The State Store by itself (common/state_manager.py): one process saves  *)
(* a state, the next process loads it.                                     *)
(***************************************************************************)
\* The hours the clock of the host is ahead of UTC
Offsets == {-1, 0, 1}

\* A naive datetime of a watcher reads the clock of the host; one that
\* carries UTC reads UTC
instant(d, tz) == IF d.aware THEN d.wall ELSE d.wall - tz

Stamps == {naive(w) : w \in {1, 2, 3}} \cup {utc(w) : w \in {1, 2, 3}}

\* known_files: file id -> modifiedTime
KnownMaps == UNION {[S -> {1, 2}] : S \in SUBSET WatchSet}

\* A record left by an earlier run
OldState == [exists |-> TRUE, last_check_time |-> utc(1), known_files |-> <<>>]

\* A record left by an earlier run that knew a file
OldStateWithFile ==
    [exists |-> TRUE, last_check_time |-> utc(1), known_files |-> [f \in {"a.txt"} |-> 1]]

\* A last_check_time that is NULL: load_config takes the epoch for it
NullTime == utc(Epoch)

\* omit: the arguments save_state is called without; before: the record as
\* the save found it
NoTrip ==
    [pc |-> "off", tz |-> 0, t |-> utc(Epoch), k |-> <<>>, omit |-> {}, before |-> NoState,
     state |-> NoState]

\* What a save leaves in a column: the argument when it is given.  When it
\* is None, postgres writes EXCLUDED.last_check_time = NULL and
\* EXCLUDED.known_files = '{}'; on supabase the key is not in data, so an
\* update keeps the column and an insert leaves it empty.
SavedField(field, given, empty) ==
    CASE field \notin trip.omit -> given
      [] DATABASE_PROVIDER = "postgres" \/ ~saved.exists -> empty
      [] OTHER -> saved[field]

\* save_state_async(t, k): an upsert on postgres, a select followed by an
\* update or an insert on supabase; an error is logged, False is returned
StateSave ==
    /\ trip.pc = "start"
    /\ \E ok \in Outcomes :
        /\ Count(ok)
        /\ saved' = IF ok
                    THEN [exists |-> TRUE,
                          last_check_time |-> SavedField("last_check_time", normalize(trip.t),
                                                         NullTime),
                          known_files |-> SavedField("known_files", trip.k, <<>>)]
                    ELSE saved
    /\ trip' = [trip EXCEPT !.pc = "saved", !.before = saved]
    /\ UNCHANGED <<DATABASE_PROVIDER, store, call, last, calls, watcher, wpc, now,
                   source, last_check_time, known_files, changes, cycle, edits, hist,
                   repositories, git, other, apart>>

\* load_state_async in the process started next: the record, or the zero
\* values when there is none or the read raises
StateLoad ==
    /\ trip.pc = "saved"
    /\ \E ok \in Outcomes :
        /\ Count(ok)
        /\ trip' = [trip EXCEPT !.pc = "loaded",
                                !.state = IF ok /\ saved.exists THEN saved ELSE NoState]
    /\ UNCHANGED <<DATABASE_PROVIDER, store, call, last, calls, watcher, wpc, now,
                   source, last_check_time, known_files, changes, saved, cycle, edits,
                   hist, repositories, git, other, apart>>

(***************************************************************************)
(* The listing of the Drive on its own: get_folder_contents and the query  *)
(* of watch_for_changes.  tree[k] is the number of files changed since     *)
(* time_str that lie directly in the folder at level k; the folder at      *)
(* level k + 1 is the subfolder of the one at level k.  A file is known by *)
(* its folder and its number in it.                                        *)
(***************************************************************************)
\* files().list(q=query, pageSize=100, ...)
PAGE_SIZE == 100

\* The changed files a folder can hold: none, one, a full page, more
Counts == {0, 1, PAGE_SIZE, PAGE_SIZE + 1}

Trees == UNION {[1..d -> Counts] : d \in 1..MaxDepth}

NoListing == [pc |-> "off", folder_id |-> FALSE, tree |-> <<>>, files |-> {}]

ChangedIn(tree, k) == {<<k, i>> : i \in 1..tree[k]}

\* .execute().get('files', []): the first page of the result; nextPageToken is
\* asked for and not used
FirstPage(tree, k, room) == {<<k, i>> : i \in 1..Min(tree[k], room)}

\* get_folder_contents(folder_id, time_str) on the folder at level k: its own
\* changed files, then those of its subfolders
RECURSIVE get_folder_contents(_, _)
get_folder_contents(tree, k) ==
    FirstPage(tree, k, PAGE_SIZE)
        \cup (IF k < Len(tree) THEN get_folder_contents(tree, k + 1) ELSE {})

\* No folder_id: one query over the whole drive, its first page
RECURSIVE whole_drive(_, _, _)
whole_drive(tree, k, room) ==
    IF k > Len(tree) THEN {}
    ELSE FirstPage(tree, k, room)
            \cup whole_drive(tree, k + 1, room - Min(tree[k], room))

\* watch_for_changes: files = ...
ListChanges ==
    /\ listing.pc = "start"
    /\ listing' = [listing EXCEPT
                     !.pc = "listed",
                     !.files = IF listing.folder_id
                               THEN get_folder_contents(listing.tree, 1)
                               ELSE whole_drive(listing.tree, 1, PAGE_SIZE)]
    /\ UNCHANGED <<DATABASE_PROVIDER, store, call, last, calls, faults, watcher, wpc,
                   now, source, last_check_time, known_files, changes, saved, cycle,
                   edits, hist, repositories, git, other, trip, chunker, config, args>>

(***************************************************************************)
(* The Git watcher: GitRepositoryWatcher (repo_watcher.py).  A cycle       *)
(* fetches the pending repositories and analyzes them one by one; every    *)
(* update of a repository's status is a store call of its own.             *)
(***************************************************************************)
\* The repositories, in the order the store returns them
Repos == <<"r1", "r2">>
RepoSet == {Repos[k] : k \in DOMAIN Repos}

\* CodeParser.get_repo_files: the code files of the clone, as relative paths
get_repo_files(r) == IF r = "r1" THEN <<"main.py", "util.py">> ELSE <<"main.py">>

\* file_id = f"repo_{repo_id}_{rel_path}"
RepoFileId(r, rel_path) ==
    CASE r = "r1" /\ rel_path = "main.py" -> "repo_r1_main.py"
      [] r = "r1" /\ rel_path = "util.py" -> "repo_r1_util.py"
      [] OTHER -> "repo_r2_main.py"

\* self.config["text_processing"]
GIT_CHUNK_SIZE == 1500
GIT_CHUNK_OVERLAP == 150
GitConfig == [chunk_size |-> GIT_CHUNK_SIZE, chunk_overlap |-> GIT_CHUNK_OVERLAP]

\* The code of a file: one unit of text
GitDoc == [v |-> 1, len |-> LenUnit]

\* clones: how many times clone_or_update has cloned or pulled a repository
NoGit == [pc |-> "off", repos |-> <<>>, files |-> <<>>, clones |-> <<>>]

\* What the Git watcher leaves alone
poll == <<wpc, now, source, last_check_time, known_files, changes, saved, hist, other,
          trip, apart>>

\* update_repo_status: an error is logged and nothing else happens
\* Mutant: an UPDATE without its WHERE id = ...
update_repo_status_Every(r, status, ok) ==
    repositories' = IF ok THEN [q \in DOMAIN repositories |-> status] ELSE repositories

update_repo_status(r, status, ok) ==
    repositories' = IF ok THEN [repositories EXCEPT ![r] = status] ELSE repositories

\* analyze_repository returns: run_once goes on with the next repository
NextRepo(g) ==
    [pc |-> IF Tail(g.repos) = <<>> THEN "sleep" ELSE "cloning",
     repos |-> Tail(g.repos), files |-> <<>>, clones |-> g.clones]

\* run_once: fetch_pending_repositories, [] when the query raises.  The loop
\* of watch goes on for ever; a cycle that finds nothing changes nothing.
GitFetchPending ==
    /\ watcher = "git" /\ git.pc = "sleep"
    /\ \E ok \in Outcomes :
        /\ Count(ok)
        /\ LET repos == IF ok THEN SelectSeq(Repos, LAMBDA r : repositories[r] = "pending")
                        ELSE <<>>
           IN  git' = [pc |-> IF repos = <<>> THEN "sleep" ELSE "cloning",
                       repos |-> repos, files |-> <<>>, clones |-> git.clones]
    /\ UNCHANGED <<DATABASE_PROVIDER, store, call, last, calls, watcher, cycle,
                   edits, repositories, poll>>

\* analyze_repository: await self.update_repo_status(repo_id, "cloning")
GitSetCloning ==
    /\ watcher = "git" /\ git.pc = "cloning"
    /\ \E ok \in Outcomes : Count(ok) /\ update_repo_status(Head(git.repos), "cloning", ok)
    /\ git' = [git EXCEPT !.pc = "clone"]
    /\ UNCHANGED <<DATABASE_PROVIDER, store, call, last, calls, watcher, cycle,
                   edits, poll>>

\* repo_path = self.cloner.clone_or_update(...), None when it fails
GitClone ==
    /\ watcher = "git" /\ git.pc = "clone"
    /\ \E ok \in Outcomes :
        /\ Count(ok)
        /\ git' = [git EXCEPT !.pc = IF ok THEN "analyzing" ELSE "clone_error",
                              !.clones[Head(git.repos)] = IF ok THEN @ + 1 ELSE @]
    /\ UNCHANGED <<DATABASE_PROVIDER, store, call, last, calls, watcher, cycle,
                   edits, repositories, poll>>

\* if not repo_path: update_repo_status(repo_id, "error", ...); return
GitCloneError ==
    /\ watcher = "git" /\ git.pc = "clone_error"
    /\ \E ok \in Outcomes : Count(ok) /\ update_repo_status(Head(git.repos), "error", ok)
    /\ git' = NextRepo(git)
    /\ UNCHANGED <<DATABASE_PROVIDER, store, call, last, calls, watcher, cycle,
                   edits, poll>>

\* await self.update_repo_status(repo_id, "analyzing")
GitSetAnalyzing ==
    /\ watcher = "git" /\ git.pc = "analyzing"
    /\ \E ok \in Outcomes : Count(ok) /\ update_repo_status(Head(git.repos), "analyzing", ok)
    /\ git' = [git EXCEPT !.pc = "walk"]
    /\ UNCHANGED <<DATABASE_PROVIDER, store, call, last, calls, watcher, cycle,
                   edits, poll>>

\* code_files = self.parser.get_repo_files(repo_path), inside the try
GitWalk ==
    /\ watcher = "git" /\ git.pc = "walk"
    /\ \E ok \in Outcomes :
        /\ Count(ok)
        /\ git' = IF ok
                  THEN [git EXCEPT !.pc = "file", !.files = get_repo_files(Head(git.repos))]
                  ELSE [git EXCEPT !.pc = "error"]
    /\ UNCHANGED <<DATABASE_PROVIDER, store, call, last, calls, watcher, cycle,
                   edits, repositories, poll>>

\* The loop over code_files, up to the call of process_file_for_rag_async;
\* extract_code returns "" when the read fails and the file is passed over
GitProcessFile ==
    /\ watcher = "git" /\ git.pc = "file" /\ git.files # <<>>
    /\ \E ok \in Outcomes :
        /\ Count(ok)
        /\ IF ok
           THEN /\ call' = NewCall("replace", "git",
                                   RepoFileId(Head(git.repos), Head(git.files)),
                                   GitDoc, GitConfig)
                /\ git' = [git EXCEPT !.pc = "rag"]
           ELSE /\ git' = [git EXCEPT !.files = Tail(git.files)]
                /\ UNCHANGED call
    /\ UNCHANGED <<DATABASE_PROVIDER, store, last, calls, watcher, cycle, edits,
                   repositories, poll>>

\* ... and from its return: if success: processed_count += 1
GitProcessFileReturn ==
    /\ watcher = "git" /\ git.pc = "rag" /\ call.pc = "done"
    /\ git' = [git EXCEPT !.pc = "file", !.files = Tail(git.files)]
    /\ call' = NoCall
    /\ UNCHANGED <<DATABASE_PROVIDER, store, last, calls, faults, watcher, cycle,
                   edits, repositories, poll>>

\* After the loop: await self.update_repo_status(repo_id, "cloned")
GitSetCloned ==
    /\ watcher = "git" /\ git.pc = "file" /\ git.files = <<>>
    /\ \E ok \in Outcomes : Count(ok) /\ update_repo_status(Head(git.repos), "cloned", ok)
    /\ git' = NextRepo(git)
    /\ UNCHANGED <<DATABASE_PROVIDER, store, call, last, calls, watcher, cycle,
                   edits, poll>>

\* except Exception as e: await self.update_repo_status(repo_id, "error", str(e))
GitSetError ==
    /\ watcher = "git" /\ git.pc = "error"
    /\ \E ok \in Outcomes : Count(ok) /\ update_repo_status(Head(git.repos), "error", ok)
    /\ git' = NextRepo(git)
    /\ UNCHANGED <<DATABASE_PROVIDER, store, call, last, calls, watcher, cycle,
                   edits, poll>>

\* The watcher process is stopped in the middle of an analysis and started
\* again: __init__ and watch, nothing is kept of the run before
GitRestart ==
    /\ watcher = "git" /\ git.pc # "sleep" /\ edits < MaxEdits
    /\ git' = [pc |-> "sleep", repos |-> <<>>, files |-> <<>>, clones |-> git.clones]
    /\ call' = NoCall
    /\ edits' = edits + 1
    /\ UNCHANGED <<DATABASE_PROVIDER, store, last, calls, faults, watcher, cycle,
                   repositories, poll>>

(***************************************************************************)
(* The specifications.                                                     *)
(***************************************************************************)
StoreInit ==
    /\ DATABASE_PROVIDER \in Providers
    /\ documents = EmptyBag
    /\ document_rows = EmptyBag
    /\ document_metadata = <<>>
    /\ call = NoCall
    /\ last = NoLast
    /\ calls = 0
    /\ faults = 0

\* load_config: no pipeline state is stored yet
WatcherInit ==
    /\ wpc = "sleep"
    /\ now = 1
    /\ last_check_time = EpochOf(watcher)
    /\ known_files = <<>>
    /\ changes = <<>>
    /\ saved = NoState
    /\ cycle = 0
    /\ edits = 0
    /\ hist = NoHist
    /\ other = NoCall
    /\ trip = NoTrip
    /\ listing = NoListing
    /\ chunker = NoChunker

\* The process is started without --mode and without RUN_MODE
NoArgs == [mode |-> "unset", RUN_MODE |-> "unset"]

\* load_config without a config.json: the default text_processing
DefaultConfig == [chunk_size |-> DEFAULT_CHUNK_SIZE, chunk_overlap |-> DEFAULT_CHUNK_OVERLAP]

ProcessInit ==
    /\ config = DefaultConfig
    /\ args = NoArgs

\* No Git watcher runs
GitOff ==
    /\ repositories = <<>>
    /\ git = NoGit

\* The gateway called directly: no watcher runs
Init ==
    /\ StoreInit
    /\ watcher = "none"
    /\ source = <<>>
    /\ WatcherInit
    /\ ProcessInit
    /\ GitOff

\* The first contents of the watched files: a text that is empty or one unit
\* long, a table of one unit
FirstDocs(f) ==
    {d \in Docs : /\ d.v = 1 /\ d.len \in WatchLengths
                  /\ get_mime_type(f) \in tabular_mime_types => d.len = LenUnit}

\* A watcher on a source whose files all have their first content
InitWatch ==
    /\ StoreInit
    /\ watcher \in Watchers
    /\ \E first \in [WatchSet -> Docs] :
        /\ \A f \in WatchSet : first[f] \in FirstDocs(f)
        /\ source = [f \in WatchSet |->
                        [doc |-> first[f], stripped |-> 0, mtime |-> 1, trashed |-> FALSE]]
    /\ WatcherInit
    /\ ProcessInit
    /\ GitOff

\* The Git watcher on repositories just created: create_repository gives
\* them the status pending
InitGit ==
    /\ StoreInit
    /\ watcher = "git"
    /\ source = <<>>
    /\ WatcherInit
    /\ ProcessInit
    /\ repositories = [r \in RepoSet |-> "pending"]
    /\ git = [pc |-> "sleep", repos |-> <<>>, files |-> <<>>, clones |-> [r \in RepoSet |-> 0]]

\* The store calls of db_handler for a file that is not tabular
TextStep ==
    \/ DeleteDocuments
    \/ DeleteRows
    \/ DeleteMetadata
    \/ UpsertMetadata
    \/ SelectMetadata
    \/ WriteMetadata
    \/ ChunkAndEmbed
    \/ InsertChunks

\* ... and those made for the rows of a tabular file
RowsStep ==
    \/ RowsDelete
    \/ RowsInsert

DbStep ==
    \/ TextStep
    \/ RowsStep

PgStep ==
    \/ PgUpsertMetadata
    \/ PgChunkAndEmbed
    \/ PgInsertChunk
    \/ PgTabularSchema
    \/ PgTabularEmbed
    \/ PgTabularInsert

Next ==
    \/ StartReplace
    \/ StartDelete
    \/ StartPgReplace
    \/ StartPgDelete
    \/ DbStep
    \/ PgStep

Spec == Init /\ [][Next]_vars

NextWatch ==
    \/ LocalGetChanges
    \/ LocalProcessFile
    \/ LocalProcessFileReturn
    \/ LocalSaveState
    \/ DriveList
    \/ DriveProcessFile
    \/ DriveProcessFileReturn
    \/ DriveTrashedReturn
    \/ DriveSaveState
    \/ ModifyFile
    \/ TrashFile
    \/ Restart
    \/ DbStep

SpecWatch == InitWatch /\ [][NextWatch]_vars

(***************************************************************************)
(* A watcher whose source changes while a poll cycle is under way.         *)
(***************************************************************************)
NextRace ==
    \/ LocalGetChanges
    \/ LocalProcessFile
    \/ LocalProcessFileReturn
    \/ LocalSaveState
    \/ DriveList
    \/ DriveProcessFile
    \/ DriveProcessFileReturn
    \/ DriveSaveState
    \/ ModifyMidCycle
    \/ DbStep

SpecRace == InitWatch /\ [][NextRace]_vars

(***************************************************************************)
(* A watcher that is interrupted while a poll cycle is under way.          *)
(***************************************************************************)
NextStop ==
    \/ LocalGetChanges
    \/ LocalProcessFile
    \/ LocalProcessFileReturn
    \/ LocalSaveState
    \/ DriveList
    \/ DriveProcessFile
    \/ DriveProcessFileReturn
    \/ DriveSaveState
    \/ Interrupt
    \/ DbStep

SpecStop == InitWatch /\ [][NextStop]_vars

(***************************************************************************)
(* One run of a watcher process from its start: docker_entrypoint.py and   *)
(* Local_Files/main.py give the Local watcher its mode, load_config gives  *)
(* it the text_processing of config.json as it is written there.           *)
(***************************************************************************)
Modes == {"single", "continuous"}

ArgSets == [mode : Modes \cup {"unset"}, RUN_MODE : Modes \cup {"unset"}]

\* text_processing of config.json: the default, an overlap equal to the
\* chunk size and an overlap above it
RunConfigs ==
    {[chunk_size |-> DEFAULT_CHUNK_SIZE, chunk_overlap |-> o] :
        o \in {DEFAULT_CHUNK_OVERLAP, DEFAULT_CHUNK_SIZE, DEFAULT_CHUNK_SIZE + 1}}

\* The characters of the text file chunk_text keeps, and the carriage
\* returns and NUL characters it has besides
RunLengths == {0, DEFAULT_CHUNK_SIZE, LenUnit, 2 * LenUnit}
RunStripped == {0, 1}

FileOf(len, stripped) ==
    [doc |-> [v |-> 1, len |-> len], stripped |-> stripped, mtime |-> 1, trashed |-> FALSE]

\* The Local watcher on a directory with one text file, or the Drive
\* watcher on a folder with an image and an archive
InitRun ==
    /\ StoreInit
    /\ watcher \in Watchers
    /\ config \in RunConfigs
    /\ IF watcher = "local"
       THEN /\ args \in ArgSets
            /\ \E len \in RunLengths, stripped \in RunStripped :
                 source = [f \in {"a.txt"} |-> FileOf(len, stripped)]
       ELSE /\ args = NoArgs
            /\ source = [f \in {"c.png", "d.zip"} |-> FileOf(LenUnit, 0)]
    /\ WatcherInit
    /\ GitOff

NextRun ==
    \/ LocalGetChanges
    \/ LocalProcessFile
    \/ LocalProcessFileReturn
    \/ LocalSaveState
    \/ DriveList
    \/ DriveProcessFile
    \/ DriveProcessFileReturn
    \/ DriveSaveState
    \/ TextStep

SpecRun == InitRun /\ [][NextRun]_vars

\* A state to save, on a host in some time zone, with or without a record
\* of an earlier run
InitState ==
    /\ StoreInit
    /\ watcher = "none"
    /\ source = <<>>
    /\ wpc = "sleep"
    /\ now = 1
    /\ last_check_time = EpochOf(watcher)
    /\ known_files = <<>>
    /\ changes = <<>>
    /\ saved \in {NoState, OldState}
    /\ cycle = 0
    /\ edits = 0
    /\ hist = NoHist
    /\ other = NoCall
    /\ listing = NoListing
    /\ chunker = NoChunker
    /\ GitOff
    /\ ProcessInit
    /\ \E tz \in Offsets, t \in Stamps, k \in KnownMaps :
        trip = [NoTrip EXCEPT !.pc = "start", !.tz = tz, !.t = t, !.k = k]

NextState ==
    \/ StateSave
    \/ StateLoad

SpecState == InitState /\ [][NextState]_vars

\* A save that is called without one of its arguments or without both
\* (update_last_check_time gives the time only), on a store with or without
\* a record
InitPartial ==
    /\ StoreInit
    /\ watcher = "none"
    /\ source = <<>>
    /\ wpc = "sleep"
    /\ now = 1
    /\ last_check_time = EpochOf(watcher)
    /\ known_files = <<>>
    /\ changes = <<>>
    /\ saved \in {NoState, OldState, OldStateWithFile}
    /\ cycle = 0
    /\ edits = 0
    /\ hist = NoHist
    /\ other = NoCall
    /\ listing = NoListing
    /\ chunker = NoChunker
    /\ GitOff
    /\ ProcessInit
    /\ \E tz \in Offsets, t \in Stamps, k \in KnownMaps,
          omit \in SUBSET {"last_check_time", "known_files"} :
        /\ omit # {}
        /\ trip = [NoTrip EXCEPT !.pc = "start", !.tz = tz,
                                 !.t = IF "last_check_time" \in omit THEN NullTime ELSE t,
                                 !.k = IF "known_files" \in omit THEN <<>> ELSE k,
                                 !.omit = omit]

SpecPartial == InitPartial /\ [][NextState]_vars

\* The Drive watcher about to list a Drive, with a root folder or without
InitList ==
    /\ StoreInit
    /\ watcher = "none"
    /\ source = <<>>
    /\ wpc = "sleep"
    /\ now = 1
    /\ last_check_time = EpochOf(watcher)
    /\ known_files = <<>>
    /\ changes = <<>>
    /\ saved = NoState
    /\ cycle = 0
    /\ edits = 0
    /\ hist = NoHist
    /\ other = NoCall
    /\ trip = NoTrip
    /\ chunker = NoChunker
    /\ GitOff
    /\ ProcessInit
    /\ \E tree \in Trees, folder_id \in BOOLEAN :
        listing = [pc |-> "start", folder_id |-> folder_id, tree |-> tree, files |-> {}]

NextList == ListChanges

SpecList == InitList /\ [][NextList]_vars

\* chunk_text about to be called on a text
InitChunk ==
    /\ StoreInit
    /\ watcher = "none"
    /\ source = <<>>
    /\ wpc = "sleep"
    /\ now = 1
    /\ last_check_time = EpochOf(watcher)
    /\ known_files = <<>>
    /\ changes = <<>>
    /\ saved = NoState
    /\ cycle = 0
    /\ edits = 0
    /\ hist = NoHist
    /\ other = NoCall
    /\ trip = NoTrip
    /\ listing = NoListing
    /\ GitOff
    /\ ProcessInit
    /\ \E text \in Texts, chunk_size \in 1..MaxSize, overlap \in 0..MaxOverlap :
        chunker = [pc |-> "start", text |-> text, chunk_size |-> chunk_size,
                   overlap |-> overlap, chunks |-> <<>>]

NextChunk == ChunkText

SpecChunk == InitChunk /\ [][NextChunk]_vars

(***************************************************************************)
(* Two pipeline instances on one store.  Each runs process_file_for_rag on *)
(* the same file; their store calls interleave in any order.  call is the  *)
(* call of the instance that makes the next store call, other the call of  *)
(* the instance that waits.                                                *)
(***************************************************************************)
\* Both instances find the file changed and call process_file_for_rag, each
\* with the content it has read
StartPair ==
    /\ call.op = "none" /\ other.op = "none"
    /\ calls + 2 <= MaxCalls
    /\ \E f \in ClientFiles, cfg \in Configs :
        \E d1 \in DocsOf(f), d2 \in DocsOf(f) :
            /\ call' = NewCall("replace", "client", f, d1, cfg)
            /\ other' = NewCall("replace", "client", f, d2, cfg)
    /\ calls' = calls + 2
    /\ UNCHANGED <<DATABASE_PROVIDER, store, last, faults, watcher, wpc, now,
                   source, last_check_time, known_files, changes, saved, cycle, edits,
                   hist, repositories, git, trip, apart>>

\* The instance that waits makes the next store call
Switch ==
    /\ other.op = "replace"
    /\ call' = other
    /\ other' = call
    /\ UNCHANGED <<DATABASE_PROVIDER, store, last, calls, faults, watcher, wpc, now,
                   source, last_check_time, known_files, changes, saved, cycle, edits,
                   hist, repositories, git, trip, apart>>

NextPair ==
    \/ StartPair
    \/ Switch
    \/ DbStep

SpecPair == Init /\ [][NextPair]_vars

NextGit ==
    \/ GitFetchPending
    \/ GitSetCloning
    \/ GitClone
    \/ GitCloneError
    \/ GitSetAnalyzing
    \/ GitWalk
    \/ GitProcessFile
    \/ GitProcessFileReturn
    \/ GitSetCloned
    \/ GitSetError
    \/ GitRestart
    \/ TextStep

\* watch: while True: await self.run_once(); the loop always takes its next step
SpecGit == InitGit /\ [][NextGit]_vars /\ WF_vars(NextGit)

(***************************************************************************)
(* What the claims speak of.                                               *)
(***************************************************************************)
ReplaceOps == {"replace", "pg_replace"}
DeleteOps == {"delete", "pg_delete"}

Returned == call.pc = "done"

\* No store or embedding call of the gateway call raised
Clean(c) == c.raised = {}

\* last is the call before the one in progress, on the same file
Consecutive == last.c.pc = "done" /\ last.c.file_id = call.file_id

NoDuplicate(bag) == \A r \in DOMAIN bag : bag[r] = 1

BagSize(bag) == Cardinality(DOMAIN bag)

\* The contents the visible records of f derive from. The records that
\* postgres_handler writes without anything of the content (the title, the
\* tabular summary) derive from no content in particular.
SourcesVisible(f) ==
    ({[v |-> r.content.v, len |-> r.content.len] : r \in DOMAIN ChunksOf(f)}
       \cup {r.row_data.of : r \in DOMAIN RowsOf(f)}
       \cup {m.title.rev : m \in MetaOf(f)}
       \cup UNION {{m.schema[k] : k \in 1..Len(m.schema)} : m \in MetaOf(f)})
    \ {NoDoc}

PgTabular(c) == c.op = "pg_replace" /\ c.file_id \in TabularPrefixed

\* The records a replace call is to leave for its input
ExpectedChunks(c) ==
    CASE PgTabular(c) -> SetToBag({PgTabularRecord(c)})
      [] c.op = "pg_replace" -> BagOfSeq([k \in 1..Len(CallChunks(c)) |-> PgChunkRecord(c, k)])
      [] OTHER -> BagOfSeq([k \in 1..Len(CallChunks(c)) |-> ChunkRecord(c, k)])

ExpectedRows(c) ==
    IF c.op = "pg_replace" THEN EmptyBag
    ELSE BagOfSeq([k \in 1..Len(CallRows(c)) |-> RowRecord(c, k)])

ExpectedMeta(c) ==
    IF c.op = "pg_replace"
    THEN {[title |-> PgTitle(c.file_id),
           schema |-> IF PgTabular(c) THEN EmptyListSchema ELSE NoSchema]}
    ELSE {MetadataRecord(c)}

ExpectedRecords(c) ==
    [chunks |-> ExpectedChunks(c), rows |-> ExpectedRows(c), meta |-> ExpectedMeta(c)]

(***************************************************************************)
(* C1: for every file, in every state (also between two store calls of a   *)
(* replace and after a replace that failed part-way), the chunk, row and   *)
(* metadata records visible for the file derive from one version of its    *)
(* content.                                                                *)
(***************************************************************************)
C1_OneVersionVisible ==
    \A f \in Files : Cardinality(SourcesVisible(f)) <= 1

(***************************************************************************)
(* C2: ReplaceFile(f, old) run to its end and then ReplaceFile(f, new) run *)
(* to its end, no store or embedding call of either raising, leaves for f  *)
(* exactly the chunks of new: every one once, none of old.                 *)
(***************************************************************************)
C2_ReplaceLeavesExactlyNew ==
    (/\ Returned /\ call.op \in ReplaceOps /\ Clean(call)
     /\ Consecutive /\ last.c.op \in ReplaceOps /\ Clean(last.c))
    => LET chunks == ChunksOf(call.file_id)
       IN  /\ NoDuplicate(chunks)
           /\ PgTabular(call) => chunks = SetToBag({PgTabularRecord(call)})
           /\ ~PgTabular(call) =>
                /\ {r.content : r \in DOMAIN chunks} =
                     {CallChunks(call)[k] : k \in 1..Len(CallChunks(call))}
                /\ BagSize(chunks) = Len(CallChunks(call))
                /\ \A r \in DOMAIN chunks :
                     r.content = CallChunks(call)[r.chunk_index + 1]

C2_Witness ==
    /\ Returned /\ call.op = "replace" /\ Clean(call)
    /\ Consecutive /\ last.c.op = "replace" /\ Clean(last.c)
    /\ last.c.doc # call.doc
    /\ BagSize(last.post.chunks) >= 2
    /\ BagSize(ChunksOf(call.file_id)) >= 2

(***************************************************************************)
(* C3: ReplaceFile called twice in a row with the same inputs, no store or *)
(* embedding call raising, leaves the chunk, row and metadata records the  *)
(* first call left, none of them twice.                                    *)
(***************************************************************************)
C3_ReplaceIdempotent ==
    (/\ Returned /\ call.op \in ReplaceOps /\ Clean(call)
     /\ Consecutive /\ last.c.op = call.op /\ Clean(last.c)
     /\ last.c.doc = call.doc /\ last.c.config = call.config)
    => /\ RecordsOf(call.file_id) = last.post
       /\ NoDuplicate(ChunksOf(call.file_id))
       /\ NoDuplicate(RowsOf(call.file_id))

C3_Witness ==
    /\ Returned /\ call.op = "replace" /\ Clean(call)
    /\ Consecutive /\ last.c.op = "replace" /\ Clean(last.c)
    /\ last.c.doc = call.doc /\ last.c.config = call.config
    /\ BagSize(ChunksOf(call.file_id)) >= 2
    /\ BagSize(RowsOf(call.file_id)) >= 2

(***************************************************************************)
(* C4: when DeleteFile(f) has returned, none of its deletes having raised, *)
(* the store holds no chunk, no row and no metadata record of f, whatever  *)
(* it held before, through db_handler on both providers and through        *)
(* postgres_handler.                                                       *)
(***************************************************************************)
C4_DeleteLeavesNothing ==
    (Returned /\ call.op \in DeleteOps /\ Clean(call))
    => RecordsOf(call.file_id) = NoRecords

C4_Witness ==
    /\ Returned /\ call.op \in DeleteOps /\ Clean(call)
    /\ BagSize(call.pre.chunks) >= 2
    /\ BagSize(call.pre.rows) >= 2
    /\ call.pre.meta # {}

(***************************************************************************)
(* C5: on the supabase provider, after a ReplaceFile(f) in which a call    *)
(* raised, a later ReplaceFile(f) in which no call raises ends with        *)
(* exactly the chunk, row and metadata records of its own input.           *)
(***************************************************************************)
C5_NextReplaceRepairs ==
    (/\ DATABASE_PROVIDER = "supabase"
     /\ Returned /\ call.op = "replace" /\ Clean(call)
     /\ Consecutive /\ last.c.op = "replace" /\ ~Clean(last.c))
    => RecordsOf(call.file_id) = ExpectedRecords(call)

\* The failed call had deleted the old chunks and not inserted all the new ones
C5_Witness ==
    /\ DATABASE_PROVIDER = "supabase"
    /\ Returned /\ call.op = "replace" /\ Clean(call)
    /\ Consecutive /\ last.c.op = "replace"
    /\ last.c.raised \cap {"embed", "chunks_ins"} # {}
    /\ last.found_chunks /\ ~last.kept_chunks
    /\ last.post.chunks # ExpectedChunks(last.c)
    /\ BagSize(ChunksOf(call.file_id)) >= 2

(***************************************************************************)
(* C6: on the postgres provider ReplaceFile(f) is atomic: when one of its  *)
(* steps has failed, the records stored for f after the call are those     *)
(* stored before it.                                                       *)
(***************************************************************************)
C6_PostgresReplaceAtomic ==
    (/\ DATABASE_PROVIDER = "postgres"
     /\ Returned /\ call.op \in ReplaceOps /\ ~Clean(call))
    => RecordsOf(call.file_id) = call.pre

(***************************************************************************)
(* C7: when chunking yields no chunk, or the embedding call fails or       *)
(* returns another number of vectors than chunks, the file is not stored   *)
(* in part: after the call the store does not hold a metadata or row       *)
(* record of the file without its chunks.                                  *)
(***************************************************************************)
StoredInPart(f) ==
    /\ MetaOf(f) # {} \/ RowsOf(f) # EmptyBag
    /\ ChunksOf(f) = EmptyBag

C7_NeverStoredInPart ==
    (/\ Returned /\ call.op \in ReplaceOps
     /\ \/ Len(CallChunks(call)) = 0
        \/ call.raised \cap {"embed", "embed_short", "len_mismatch"} # {})
    => ~StoredInPart(call.file_id)

(***************************************************************************)
(* C8: when a step of ReplaceFile fails the call reports a failure, and it *)
(* reports success only if every chunk, row and metadata record of the     *)
(* file has been persisted.                                                *)
(***************************************************************************)
C8_FailureIsReported ==
    (Returned /\ call.op \in ReplaceOps)
    => /\ ~Clean(call) => call.result \in {"False", "error"}
       /\ call.result \in {"True", "success"} =>
            RecordsOf(call.file_id) = ExpectedRecords(call)

(***************************************************************************)
(* C9: within one poll cycle, a failure while fetching, extracting,        *)
(* embedding or storing one of the listed files does not abort the cycle:  *)
(* the later files of the cycle are still processed and the cycle reaches  *)
(* its state save.  In the model an aborted cycle is an exception that     *)
(* leaves the poll loop, wpc = "raised", while files of the cycle are      *)
(* still to process; the claim says no such state is reached.              *)
(***************************************************************************)
C9_FileFailureKeepsCycle == wpc = "raised" => changes = <<>>

(***************************************************************************)
(* C10: if the processing of a changed file fails in a poll cycle, the     *)
(* cycle does not set or advance knownFiles of that file, and the file is  *)
(* listed again in the next cycle.  hist.failed holds the files whose      *)
(* read raised or whose process_file_for_rag returned False in the cycle,  *)
(* hist.known is known_files as the cycle found it.                        *)
(***************************************************************************)
Known(k, f) == IF f \in DOMAIN k THEN k[f] ELSE Epoch

C10_FailedFileIsRetried ==
    /\ \A f \in hist.failed : Known(known_files, f) = Known(hist.known, f)
    /\ hist.failed_before \subseteq hist.listed

(***************************************************************************)
(* C11: in continuous mode a failure of the listing step never ends the    *)
(* poll loop of a watcher: the error is caught, the watcher waits and      *)
(* lists again.  The listing is the step a watcher takes from              *)
(* wpc = "sleep"; the claim says that step never leaves the loop with an   *)
(* exception.                                                              *)
(***************************************************************************)
C11_ListingFailureKeepsLoop == [][~(wpc = "sleep" /\ wpc' = "raised")]_vars

(***************************************************************************)
(* C12: every repository the Git watcher moves out of pending eventually   *)
(* reaches the status cloned or error, whichever step fails and also       *)
(* across a restart of the watcher: none stays in cloning or analyzing.    *)
(***************************************************************************)
Intermediate == {"cloning", "analyzing"}
Terminal == {"cloned", "error"}

C12_RepositoryReachesTerminal ==
    \A r \in RepoSet : (repositories[r] \in Intermediate) ~> (repositories[r] \in Terminal)

(***************************************************************************)
(* C13: the Git watcher writes the status of a repository only along       *)
(* pending -> cloning -> analyzing -> cloned | error: the transitions it   *)
(* performs are pending->cloning, cloning->analyzing, cloning->error,      *)
(* analyzing->cloned and analyzing->error, so it starts on pending         *)
(* repositories only and never overwrites a terminal status.               *)
(***************************************************************************)
Lifecycle ==
    {<<"pending", "cloning">>, <<"cloning", "analyzing">>, <<"cloning", "error">>,
     <<"analyzing", "cloned">>, <<"analyzing", "error">>}

C13_StatusFollowsLifecycle ==
    [][\A r \in RepoSet :
          repositories'[r] # repositories[r]
              => <<repositories[r], repositories'[r]>> \in Lifecycle]_vars

(***************************************************************************)
(* C14: when the Drive watcher lists a file as trashed that it had         *)
(* ingested before, it calls DeleteFile and never ReplaceFile for it, and  *)
(* at the end of that poll cycle the store holds no chunk and no metadata  *)
(* record of the file and known_files does not contain it.  Stated for     *)
(* runs in which no store call raised.                                     *)
(***************************************************************************)
C14_TrashedFileIsDeleted ==
    (watcher = "drive" /\ faults = 0)
    => /\ (call.op # "none" /\ call.file_id \in hist.trashed) => call.op = "delete"
       /\ wpc = "sleep" =>
            \A f \in hist.trashed :
                /\ ChunksOf(f) = EmptyBag
                /\ MetaOf(f) = {}
                /\ f \notin DOMAIN known_files

\* A cycle has ended in which a file, ingested with chunks before, was listed
\* as trashed
C14_Witness ==
    /\ watcher = "drive" /\ faults = 0 /\ wpc = "sleep"
    /\ \E f \in hist.trashed :
        /\ f \in DOMAIN hist.known
        /\ Len(chunk_text(1, source[f].doc.len, DEFAULT_CHUNK_SIZE, DEFAULT_CHUNK_OVERLAP)) > 1
        /\ ChunksOf(f) = EmptyBag

(***************************************************************************)
(* C15: the persisted pipeline state (last_check_time and known_files) is  *)
(* written only at the end of a poll cycle that ran to completion after a  *)
(* successful listing; a cycle whose listing failed or that was aborted    *)
(* leaves it unchanged.  A step that changes the persisted state starts    *)
(* where the listing has succeeded and no listed file is left, and ends    *)
(* the cycle.                                                              *)
(***************************************************************************)
C15_StateSavedAtEndOfCycle ==
    [][saved' # saved => (wpc = "files" /\ changes = <<>> /\ wpc' = "sleep")]_vars

\* A cycle listed, moved the watermark and was aborted; the state persisted
\* by the cycle before is still the persisted state
C15_Witness ==
    /\ wpc = "raised" /\ saved.exists
    /\ saved.last_check_time.wall < last_check_time.wall

(***************************************************************************)
(* C16: State Store round trip across a restart: Save(t, k) followed by    *)
(* Load in a new process returns a lastCheckTime that denotes the same     *)
(* instant as t and a knownFiles map equal to k, on both backends, for a   *)
(* t that carries a time zone and for a naive t produced by a watcher.     *)
(* Stated for a save and a load that did not raise.                        *)
(***************************************************************************)
C16_StateRoundTrip ==
    (trip.pc = "loaded" /\ faults = 0)
    => /\ trip.state.exists
       /\ instant(trip.state.last_check_time, trip.tz) = instant(trip.t, trip.tz)
       /\ trip.state.known_files = trip.k

\* A step of load_config: the watcher (re)starts and nothing else happens.
LoadStep ==
    /\ wpc \in {"sleep", "raised"} /\ wpc' = "sleep"
    /\ cycle' = cycle /\ edits' = edits
    /\ <<last_check_time, known_files, hist, wpc, faults>>'
           # <<last_check_time, known_files, hist, wpc, faults>>

\* The watcher holds the zero values of the pipeline state.
ZeroValues(t, k) == t.wall = Epoch /\ k = <<>>

\* C17: when the watcher starts and no state record exists, or the read of
\* it fails, the start still completes (the watcher is at the head of its
\* loop), it holds the epoch as last check time and no known files, and the
\* next listing that succeeds from these values lists every file of the source.
C17_StartsFromZeroValues ==
    [][ /\ (LoadStep /\ (~saved.exists \/ faults' # faults))
            => (wpc' = "sleep" /\ ZeroValues(last_check_time', known_files'))
        /\ (wpc = "sleep" /\ wpc' = "files" /\ ZeroValues(last_check_time, known_files))
            => Ids(changes') = WatchSet /\ hist'.listed = WatchSet ]_vars

\* The watcher restarted although a record with known files is stored, the
\* read of it failed, and the listing after it lists every file again.
C17_Witness ==
    /\ saved.exists /\ saved.known_files # <<>>
    /\ wpc = "files" /\ cycle = MaxCycles
    /\ hist.known = <<>> /\ hist.listed = WatchSet /\ faults = 1
    /\ edits = 0

\* C18: a save of the state that fails at the end of a cycle leaves the
\* watcher in its loop and the stored records as they are; and when the
\* watcher is started again after it, the next listing, no call of it failing,
\* completes and lists every file whose entry of known_files was not saved.
C18_SaveFailureOnlyRescans ==
    [][ /\ (wpc = "files" /\ CycleDone /\ wpc' # wpc /\ faults' # faults)
            => (wpc' = "sleep" /\ store' = store)
        /\ (/\ wpc = "sleep" /\ cycle' # cycle /\ faults' = faults
            /\ hist.save_failed /\ hist.unsaved # {})
            => (wpc' = "files" /\ hist.unsaved \subseteq hist'.listed) ]_vars

\* C19: while a replace call on a file that had a metadata record when the
\* call started is between two of its store calls, a metadata record of the
\* file exists.
C19_MetadataNeverAbsent ==
    (/\ call.op \in ReplaceOps /\ call.pc \notin {"idle", "done"}
     /\ call.pre.meta # {})
        => MetaOf(call.file_id) # {}

\* The replace calls of the two instances have both returned, on the same
\* file, and no store or embedding call of either raised
BothReturned ==
    /\ call.op = "replace" /\ other.op = "replace"
    /\ call.file_id = other.file_id
    /\ call.pc = "done" /\ other.pc = "done"
    /\ Clean(call) /\ Clean(other)

\* C20: when two replace calls on one file, their store calls interleaved in
\* any order, have both returned and no call of either raised, the file has
\* the chunks of one of the two calls, every one once, and nothing else.
C20_InterleavedReplaceLeavesOne ==
    BothReturned =>
        /\ NoDuplicate(ChunksOf(call.file_id))
        /\ ChunksOf(call.file_id) \in {ExpectedChunks(call), ExpectedChunks(other)}

\* The input of call c as the managed-API implementation takes it: through
\* db_handler, with the default text_processing configuration
ManagedCall(c) ==
    [c EXCEPT !.op = "replace",
              !.config = [chunk_size |-> DEFAULT_CHUNK_SIZE,
                          chunk_overlap |-> DEFAULT_CHUNK_OVERLAP]]

\* What the contract compares of the records of a file: of a chunk its file,
\* content and index, and how often it is stored; the rows; of the metadata
\* record its schema
ShapeOf(recs) ==
    [chunks |-> {<<r.file_id, r.content, r.chunk_index, recs.chunks[r]>> :
                    r \in DOMAIN recs.chunks},
     rows |-> recs.rows,
     meta |-> {m.schema : m \in recs.meta}]

\* C21: a replace call that has returned, no store or embedding call of it
\* raising, leaves for its file the chunk, row and metadata records that the
\* managed-API implementation leaves for the same input, whichever backend
\* and handler made the call; a delete call leaves none in each of them.
C21_BackendsAgree ==
    (Returned /\ Clean(call)) =>
        /\ call.op \in ReplaceOps =>
              ShapeOf(RecordsOf(call.file_id)) = ShapeOf(ExpectedRecords(ManagedCall(call)))
        /\ call.op \in DeleteOps => RecordsOf(call.file_id) = NoRecords

\* Every file of the Drive changed since the last check, at every folder level
AllChanged(tree) == UNION {ChangedIn(tree, k) : k \in 1..Len(tree)}

\* C22: the listing of the Drive watcher returns every file, at any folder
\* level, that was changed since the last check, however many there are.
C22_ListingIsComplete ==
    listing.pc = "listed" => listing.files = AllChanged(listing.tree)

Starts(chunks) == [k \in 1..Len(chunks) |-> chunks[k].start]

Lens(chunks) == [k \in 1..Len(chunks) |-> Len(chunks[k].chunk)]

\* chunk_text has returned for a text of twelve characters, chunk_size 5 and
\* overlap 2
TwelveFiveTwo ==
    /\ chunker.pc = "returned" /\ Len(chunker.text) = 12
    /\ chunker.chunk_size = 5 /\ chunker.overlap = 2

\* C23: chunk_text with chunk_size 5 and overlap 2 on a text of twelve
\* characters returns exactly three windows, which start at 0, 3 and 6.
C23_TwelveGivesThree ==
    TwelveFiveTwo => Starts(chunker.chunks) = <<0, 3, 6>>

\* C23 as amended: on a text of twelve characters none of which is a carriage
\* return or a null byte it returns exactly four windows, which start at 0, 3,
\* 6 and 9; the first three are 5 characters long and the last is 3.
C23_TwelveGivesFour ==
    (TwelveFiveTwo /\ replace(chunker.text) = chunker.text)
        => /\ Starts(chunker.chunks) = <<0, 3, 6, 9>>
           /\ Lens(chunker.chunks) = <<5, 5, 5, 3>>

C23_Witness ==
    TwelveFiveTwo /\ chunker.text = Twelve /\ Len(chunker.chunks) = 4

RECURSIVE Concat(_)
Concat(chunks) ==
    IF chunks = <<>> THEN <<>> ELSE Head(chunks).chunk \o Concat(Tail(chunks))

IsPrefix(p, t) == Len(p) <= Len(t) /\ SubSeq(t, 1, Len(p)) = p

\* The chunks without a last one that is shorter than chunk_size
FullWindows(chunks, chunk_size) == SelectSeq(chunks, LAMBDA c : Len(c.chunk) = chunk_size)

\* chunk_text has returned for an overlap of 0
ReturnedNoOverlap == chunker.pc = "returned" /\ chunker.overlap = 0

ChunksWithin(chunks, chunk_size) ==
    \A k \in 1..Len(chunks) : Len(chunks[k].chunk) \in 1..chunk_size

\* C24: for every text and every chunk_size >= 1, the chunks of
\* chunk_text(text, chunk_size, 0), a trailing partial one left out, put one
\* after the other are a prefix of text; every chunk is non-empty and at most
\* chunk_size characters long.
C24_ChunksArePrefixOfText ==
    ReturnedNoOverlap =>
        /\ IsPrefix(Concat(FullWindows(chunker.chunks, chunker.chunk_size)), chunker.text)
        /\ ChunksWithin(chunker.chunks, chunker.chunk_size)

\* C24 as amended: they are a prefix of the text without its carriage returns
\* and null bytes.
C24_ChunksArePrefixOfReplaced ==
    ReturnedNoOverlap =>
        /\ IsPrefix(Concat(FullWindows(chunker.chunks, chunker.chunk_size)),
                    replace(chunker.text))
        /\ ChunksWithin(chunker.chunks, chunker.chunk_size)

\* A text with carriage returns cut in four full windows and a partial one
C24_Witness ==
    /\ ReturnedNoOverlap /\ chunker.text = TwelveCR /\ chunker.chunk_size = 2
    /\ Len(chunker.chunks) = 5
    /\ Len(FullWindows(chunker.chunks, chunker.chunk_size)) = 4

\* C25: a replace call on a file whose text is empty, no store or embedding
\* call of it raising, cuts no chunk and returns a result that is not an
\* error, through db_handler and through _process_text_file of
\* postgres_handler.
C25_EmptyTextIsNoError ==
    (/\ Returned /\ call.op \in ReplaceOps /\ Clean(call)
     /\ call.doc.len = 0 /\ ~PgTabular(call))
        => /\ CallChunks(call) = <<>>
           /\ call.result \notin {"error", "False"}


(***************************************************************************)
(* C26: end to end, when the Local watcher has ingested once a text file   *)
(* of L characters with chunk size 400 and overlap 0 and nothing raised,   *)
(* the store holds exactly ceil(L/400) chunks of the file, with chunk      *)
(* index 0..ceil(L/400)-1 in text order, each with the embedding of its    *)
(* text, and exactly one metadata record of the file, whose schema is      *)
(* null; for L = 1000 these are 3 chunks of 400, 400 and 200 characters.   *)
(***************************************************************************)
Ceil(n, d) == (n + d - 1) \div d

\* The characters of the file as it is read
FileLength(f) == source[f].doc.len + source[f].stripped

\* The first cycle of the Local watcher is over and nothing raised in it
IngestedOnce ==
    /\ watcher = "local" /\ cycle = 1 /\ wpc \in {"sleep", "exited"}
    /\ faults = 0 /\ config = DefaultConfig

StoredOnce(f, L) ==
    LET n == Ceil(L, DEFAULT_CHUNK_SIZE)
        chunks == ChunksOf(f)
    IN  /\ NoDuplicate(chunks)
        /\ BagSize(chunks) = n
        /\ \A k \in 0..(n - 1) :
            \E r \in DOMAIN chunks :
                /\ r.chunk_index = k
                /\ r.content.from = k * DEFAULT_CHUNK_SIZE
                /\ r.content.to = Min((k + 1) * DEFAULT_CHUNK_SIZE, L)
                /\ r.embedding = Embedding(r.content)
        /\ Cardinality(MetaOf(f)) = 1
        /\ \A m \in MetaOf(f) : m.schema = NoSchema
        /\ L = 1000 =>
            {<<r.chunk_index, r.content.to - r.content.from>> : r \in DOMAIN chunks}
                = {<<0, 400>>, <<1, 400>>, <<2, 200>>}

C26_OnceStoresCeilChunks ==
    IngestedOnce => StoredOnce("a.txt", FileLength("a.txt"))

\* ... as it holds: of a file of L >= 1 characters none of which is a
\* carriage return or a NUL character
C26_OnceStoresCeilChunksOfPlainText ==
    (IngestedOnce /\ FileLength("a.txt") >= 1 /\ source["a.txt"].stripped = 0)
        => StoredOnce("a.txt", FileLength("a.txt"))

C26_Witness ==
    /\ IngestedOnce
    /\ FileLength("a.txt") = 1000 /\ source["a.txt"].stripped = 0
    /\ BagSize(ChunksOf("a.txt")) = 3
    /\ Cardinality(MetaOf("a.txt")) = 1


(***************************************************************************)
(* C27: a configuration whose chunk overlap is not below its chunk size is *)
(* rejected or clamped when the watcher reads it: no replace call of a     *)
(* watcher carries such a configuration to chunk_text, and none returns    *)
(* after its delete with chunk_text having raised or having cut nothing    *)
(* from a text that is not empty.                                          *)
(***************************************************************************)
C27_OverlapBelowSizeAtEveryCall ==
    (call.op = "replace" /\ call.by = "watcher")
        => /\ call.config.chunk_overlap < call.config.chunk_size
           /\ "chunk_text" \notin call.raised
           /\ (call.pc = "done" /\ call.result = "None") => call.doc.len = 0


(***************************************************************************)
(* C28: no step of the Git watcher creates or deletes a repository record: *)
(* every step leaves the set of repository records as it is and changes at *)
(* most the record of the repository the watcher is analyzing.             *)
(***************************************************************************)
C28_RepositoryRecordsOnlyUpdated ==
    [][ /\ DOMAIN repositories' = DOMAIN repositories
        /\ \A r \in DOMAIN repositories :
              repositories'[r] # repositories[r]
                  => /\ git.repos # <<>> /\ r = Head(git.repos)
                     /\ git.pc \notin {"sleep", "off"} ]_vars

C28_Witness ==
    /\ watcher = "git"
    /\ DOMAIN repositories = RepoSet
    /\ repositories["r1"] = "cloned" /\ repositories["r2"] = "pending"
    /\ git.repos # <<>> /\ Head(git.repos) = "r2"


(***************************************************************************)
(* C29: a watcher started in single-shot mode performs one poll cycle and  *)
(* terminates: it starts no second cycle and does not wait for one after   *)
(* its first; a watcher started in continuous mode does not exit on its    *)
(* own: while nothing raises it neither terminates nor stops.              *)
(***************************************************************************)
C29_ModeIsHonoured ==
    /\ (watcher = "local" /\ entrypoint_mode = "single")
          => /\ cycle <= 1
             /\ cycle = 1 => wpc # "sleep"
    /\ (watcher \in Watchers /\ entrypoint_mode = "continuous" /\ faults = 0)
          => wpc \notin {"exited", "raised"}


(***************************************************************************)
(* C30: in the Drive watcher a listed file whose MIME type is not in the   *)
(* list of supported types is filtered out before its download: no replace *)
(* call of the watcher is made for it and the store holds no record of it, *)
(* whatever its MIME type is.                                              *)
(***************************************************************************)
Unsupported(f) == get_mime_type(f) \notin supported_mime_types

C30_UnsupportedTypeIsFilteredOut ==
    watcher = "drive"
        => /\ (call.op = "replace" /\ call.by = "watcher") => ~Unsupported(call.file_id)
           /\ \A f \in DOMAIN source : Unsupported(f) => RecordsOf(f) = NoRecords


ReportsSuccess(c) == c.result \in {"True", "success"}

IndexedAndPaired(c) ==
    LET chunks == ChunksOf(c.file_id)
        n == Len(CallChunks(c))
    IN  /\ NoDuplicate(chunks)
        /\ BagSize(chunks) = n
        /\ {r.chunk_index : r \in DOMAIN chunks} = 0..(n - 1)
        /\ \A r \in DOMAIN chunks :
              /\ r.content = CallChunks(c)[r.chunk_index + 1]
              /\ r.embedding = Embedding(r.content)

C33_ChunksIndexedAndPaired ==
    (Returned /\ call.op \in ReplaceOps /\ ~PgTabular(call))
        => /\ ReportsSuccess(call) => IndexedAndPaired(call)
           /\ "embed_short" \in call.raised
                => \A r \in DOMAIN ChunksOf(call.file_id) :
                      /\ r \in DOMAIN call.pre.chunks
                      /\ ChunksOf(call.file_id)[r] <= call.pre.chunks[r]


(***************************************************************************)
(* C36: a replace call and a delete call change only records of their own  *)
(* file id: every step of a call, whatever its outcome, leaves the chunk,  *)
(* row and metadata records of every other file id as they are.            *)
(***************************************************************************)
C36_OtherFilesUntouched ==
    [][ \A g \in Files :
          (call.op # "none" /\ g # call.file_id) => RecordsOf(g)' = RecordsOf(g) ]_vars

\* A call has deleted the records of its file while another file has some
C36_Witness ==
    /\ Returned /\ call.op \in ReplaceOps \cup DeleteOps
    /\ call.pre.chunks # EmptyBag
    /\ \E g \in Files :
          /\ g # call.file_id
          /\ RecordsOf(g).chunks # EmptyBag /\ RecordsOf(g).rows # EmptyBag
          /\ RecordsOf(g).meta # {}


(***************************************************************************)
(* C35: when the text of a file that was ingested before becomes empty,    *)
(* the next poll cycle removes the chunks of its earlier content: at the   *)
(* end of a cycle in which nothing raised, a file the cycle listed as      *)
(* changed and whose text is empty has no chunk in the store.              *)
(***************************************************************************)
\* f was listed by the cycle that has just ended and not changed since
ListedAsItIs(f) ==
    /\ wpc = "sleep" /\ cycle >= 1 /\ faults = 0
    /\ f \in hist.listed /\ ~source[f].trashed
    /\ source[f].mtime < last_check_time.wall

C35_EmptiedFileLosesItsChunks ==
    \A f \in DOMAIN source :
        (ListedAsItIs(f) /\ ~truthy(f)) => ChunksOf(f) = EmptyBag


(***************************************************************************)
(* C37: after a restart that has loaded a saved pipeline state with known  *)
(* files, the next listing of the Local watcher, no call of it failing,    *)
(* completes: the loaded last check time can be compared with the          *)
(* modification times of the files and the cycle goes on to its files.     *)
(***************************************************************************)
\* The watcher holds the pipeline state as load_state returns it
HoldsLoadedState ==
    /\ saved.exists
    /\ last_check_time = saved.last_check_time
    /\ known_files = saved.known_files

C37_ListingAfterReloadCompletes ==
    [][ (/\ watcher = "local" /\ wpc = "sleep" /\ cycle' # cycle /\ faults' = faults
         /\ HoldsLoadedState /\ known_files # <<>>)
            => wpc' = "files" ]_vars


(***************************************************************************)
(* C34: no modification is lost between a listing and the watermark that   *)
(* follows it: between two poll cycles, nothing having raised, every file  *)
(* with text either is stored in its current version or will be listed as  *)
(* changed by the next listing, whenever it was modified.                  *)
(***************************************************************************)
StoredAsItIs(f) ==
    /\ ChunksOf(f) # EmptyBag
    /\ \A r \in DOMAIN ChunksOf(f) :
          r.content.v = source[f].doc.v /\ r.content.len = source[f].doc.len

\* What the next listing of the watcher selects
WillBeListed(f) ==
    IF watcher = "drive"
    THEN source[f].mtime > last_check_time.wall
    ELSE f \notin DOMAIN known_files \/ source[f].mtime > last_check_time.wall

C34_NoModificationLost ==
    (wpc = "sleep" /\ cycle >= 1 /\ faults = 0)
        => \A f \in DOMAIN source :
              (truthy(f) /\ ~source[f].trashed) => (StoredAsItIs(f) \/ WillBeListed(f))


(***************************************************************************)
(* C38: a save that is given the last check time only leaves the stored    *)
(* known files as they were, and a save that is given the known files only *)
(* leaves the stored last check time as it was, on both backends.          *)
(***************************************************************************)
C38_OmittedFieldIsKept ==
    (trip.pc = "saved" /\ faults = 0 /\ trip.before.exists)
        => /\ "known_files" \in trip.omit => saved.known_files = trip.before.known_files
           /\ "last_check_time" \in trip.omit
                => saved.last_check_time = trip.before.last_check_time


(***************************************************************************)
(* C39: a repository is given the status cloned only if every code file of *)
(* its working tree was stored by the analysis pass: when the status       *)
(* becomes cloned, every file of the repository has its chunks and its     *)
(* metadata record in the store.                                           *)
(***************************************************************************)
RepoFilesStored(r) ==
    \A k \in DOMAIN get_repo_files(r) :
        LET f == RepoFileId(r, get_repo_files(r)[k])
        IN  ChunksOf(f) # EmptyBag /\ MetaOf(f) # {}

C39_ClonedOnlyIfAllStored ==
    [][ \A r \in RepoSet :
          (repositories[r] # "cloned" /\ repositories'[r] = "cloned")
              => RepoFilesStored(r) ]_vars


(***************************************************************************)
(* C40: a repository enqueued once with the status pending is analyzed by  *)
(* at most one watcher run, also when the update of its status to cloning  *)
(* fails: no repository is cloned a second time.                           *)
(***************************************************************************)
C40_ClonedAtMostOnce ==
    watcher = "git" => \A r \in RepoSet : git.clones[r] <= 1


(***************************************************************************)
(* C31: an interrupt that arrives while a file is being processed does not *)
(* abort the file's replace: when the watcher has exited, the replace it   *)
(* was in has run to its end, and with no call having failed the chunks of *)
(* its file are all stored.                                                *)
(***************************************************************************)
C31_ShutdownFinishesTheFile ==
    (watcher \in Watchers /\ wpc = "exited" /\ call.op = "replace" /\ faults = 0)
        => (call.pc = "done" /\ IndexedAndPaired(call))

=============================================================================
